---- MODULE Spec2Model ----
(***************************************************************************)
(* A model of the Lens-os agent SDK core: the streaming tool-call          *)
(* extractor (ToolParser), the turn loop of SupervisorAgent.execute with   *)
(* streamLLM, the tiers of executeTool, concurrent execute invocations on  *)
(* one instance, and the conversation memory store (MemoryManager) with    *)
(* its asynchronous compaction.                                            *)
(*                                                                         *)
(* Strings are sequences of one-character strings, indexed from 0 by the   *)
(* helpers below, as JavaScript indexes them.                              *)
(***************************************************************************)
EXTENDS Integers, Sequences, FiniteSets, TLC

\* ------------------------------------------------------------------------
\* JavaScript string primitives, on sequences of characters
\* ------------------------------------------------------------------------

Min(a, b) == IF a < b THEN a ELSE b
Max(a, b) == IF a > b THEN a ELSE b

\* s.slice(a, b) for 0 <= a, b: the characters at 0-based positions a .. b-1.
Slice(s, a, b) == SubSeq(s, Min(a, Len(s)) + 1, Min(b, Len(s)))

\* s.slice(a): from 0-based position a to the end.
SliceFrom(s, a) == Slice(s, a, Len(s))

\* s.slice(-n): the last n characters (all of s when it is shorter).
SliceLast(s, n) == SliceFrom(s, Max(Len(s) - n, 0))

\* s.slice(0, -n): all but the last n characters.
SliceButLast(s, n) == Slice(s, 0, Max(Len(s) - n, 0))

\* Whether pat occurs in s at 0-based position i.
OccursAt(s, pat, i) ==
    /\ i >= 0
    /\ i + Len(pat) <= Len(s)
    /\ \A k \in 1..Len(pat) : s[i + k] = pat[k]

\* s.indexOf(pat, from): the first 0-based position >= from, or -1.
RECURSIVE IndexOfFrom(_, _, _)
IndexOfFrom(s, pat, from) ==
    IF from + Len(pat) > Len(s) THEN -1
    ELSE IF OccursAt(s, pat, from) THEN from
    ELSE IndexOfFrom(s, pat, from + 1)

\* s.indexOf(pat)
IndexOf(s, pat) == IndexOfFrom(s, pat, 0)

\* s.lastIndexOf(c) for one character c, or -1.
LastIndexOfChar(s, c) ==
    LET hits == {i \in 0..(Len(s) - 1) : s[i + 1] = c}
    IN  IF hits = {} THEN -1 ELSE CHOOSE i \in hits : \A j \in hits : i >= j

\* The regular expression class \s, over the characters the model uses.
IsSpace(c) == c \in {" ", "\n"}

\* The first 0-based position >= i whose character is not whitespace
\* (Len(s) when there is none): where a greedy \s* ends.
RECURSIVE SkipSpace(_, _)
SkipSpace(s, i) ==
    IF i < Len(s) /\ IsSpace(s[i + 1]) THEN SkipSpace(s, i + 1) ELSE i

\* s.trim()
RECURSIVE TrimLeft(_)
TrimLeft(s) == IF s # <<>> /\ IsSpace(Head(s)) THEN TrimLeft(Tail(s)) ELSE s
RECURSIVE TrimRight(_)
TrimRight(s) ==
    IF s # <<>> /\ IsSpace(s[Len(s)]) THEN TrimRight(SubSeq(s, 1, Len(s) - 1)) ELSE s
Trim(s) == TrimRight(TrimLeft(s))

\* ------------------------------------------------------------------------
\* ToolParser
\* ------------------------------------------------------------------------

\* The literals of ToolParser.
OpenTag == <<"<", "t", "o", "o", "l", ">">>
CloseTag == <<"<", "/", "t", "o", "o", "l", ">">>
NameKw == <<"n", "a", "m", "e", ":">>
ParamsKw == <<"p", "a", "r", "a", "m", "e", "t", "e", "r", "s", ":">>

\* A withheld tail shorter than the part of the opening delimiter that a
\* fragment may end with.
Withhold_Short == Len(OpenTag) - 2

\* A withheld tail of one character less than the opening delimiter.
Withhold_Minimal == Len(OpenTag) - 1

\* The number of trailing characters addChunk withholds: slice(0, -6), slice(-6).
Withhold == 6

\* JSON.parse, for the object texts the model's responses use: an object of
\* members "k":v with a one-letter key and a value that is one digit or a
\* one-character string, without whitespace. Any other text is rejected, as
\* JSON.parse rejects the malformed texts of the model's responses.
\* The parsed object is its members in insertion order, as a JavaScript
\* object keeps them; a repeated key keeps its first position and takes the
\* last value.
Digits == {"0", "1", "2", "3", "4", "5", "6", "7", "8", "9"}

ObjSet(obj, k, v) ==
    IF \E i \in 1..Len(obj) : obj[i].k = k
    THEN [i \in 1..Len(obj) |-> IF obj[i].k = k THEN [k |-> k, v |-> v] ELSE obj[i]]
    ELSE Append(obj, [k |-> k, v |-> v])

JsonFail == [ok |-> FALSE, obj |-> <<>>]

RECURSIVE JsonMembers(_, _)
JsonMembers(body, acc) ==
    IF ~(Len(body) >= 5 /\ body[1] = "\"" /\ body[2] \notin {"\"", "\\"}
            /\ body[3] = "\"" /\ body[4] = ":")
    THEN JsonFail
    ELSE LET key == <<body[2]>>
             isNum == body[5] \in Digits
             isStr == Len(body) >= 7 /\ body[5] = "\"" /\ body[7] = "\""
                        /\ body[6] \notin {"\"", "\\"}
             vlen == IF isNum THEN 1 ELSE 3
             val == IF isNum THEN [type |-> "num", text |-> <<body[5]>>]
                             ELSE [type |-> "str", text |-> <<body[6]>>]
             rest == SliceFrom(body, 4 + vlen)
         IN  IF ~(isNum \/ isStr) THEN JsonFail
             ELSE IF rest = <<>> THEN [ok |-> TRUE, obj |-> ObjSet(acc, key, val)]
             ELSE IF rest[1] = "," /\ Len(rest) > 1
                  THEN JsonMembers(Tail(rest), ObjSet(acc, key, val))
             ELSE JsonFail

JsonParse(s) ==
    IF Len(s) < 2 \/ s[1] # "{" \/ s[Len(s)] # "}" THEN JsonFail
    ELSE IF Len(s) = 2 THEN [ok |-> TRUE, obj |-> <<>>]
    ELSE JsonMembers(SubSeq(s, 2, Len(s) - 1), <<>>)

\* content.match(/name:\s*(.+?)(?:\n|$)/): the capture as <<text>>, or <<>>
\* when there is no match. The greedy \s* ends at the first character that
\* is not whitespace; when only whitespace follows "name:", the expression
\* backtracks to the last blank of it, which "." then matches.
NameMatch(content) ==
    LET i == IndexOf(content, NameKw)
        a == i + Len(NameKw)
        e == SkipSpace(content, a)
        blanks == {j \in a..(e - 1) : content[j + 1] = " "}
        start == IF e < Len(content) THEN e
                 ELSE IF blanks = {} THEN -1
                 ELSE CHOOSE j \in blanks : \A k \in blanks : j >= k
        nl == IndexOfFrom(content, <<"\n">>, start + 1)
        stop == IF nl = -1 THEN Len(content) ELSE nl
    IN  IF i = -1 \/ start = -1 THEN <<>> ELSE <<Slice(content, start, stop)>>

\* content.match(/parameters:\s*(\{[\s\S]*\})/): the capture as <<text>>,
\* or <<>>. The capture runs from the brace after the first "parameters:"
\* that has one to the last closing brace of the content.
ParamsMatch(content) ==
    LET last == LastIndexOfChar(content, "}")
        brace(i) == SkipSpace(content, i + Len(ParamsKw))
        hits == {i \in 0..(Len(content) - Len(ParamsKw)) :
                    /\ OccursAt(content, ParamsKw, i)
                    /\ brace(i) < Len(content)
                    /\ content[brace(i) + 1] = "{"
                    /\ last > brace(i)}
        first == CHOOSE i \in hits : \A j \in hits : i <= j
    IN  IF hits = {} THEN <<>> ELSE <<Slice(content, brace(first), last + 1)>>

RawKey == <<"r", "a", "w">>

\* A parseToolContent that gives a call without name for a content without
\* name line.
parseToolContent_Nameless(content) ==
    IF NameMatch(content) = <<>> THEN <<[name |-> <<>>, parameters |-> <<>>]>>
    ELSE <<[name |-> Trim(NameMatch(content)[1]), parameters |-> <<>>]>>

\* ToolParser.parseToolContent: <<toolCall>>, or <<>> for null.
parseToolContent(content) ==
    LET nameMatch == NameMatch(content)
        paramsMatch == ParamsMatch(content)
        parsed == JsonParse(Trim(paramsMatch[1]))
        parameters ==
            IF paramsMatch = <<>> THEN <<>>
            ELSE IF parsed.ok THEN parsed.obj
            ELSE <<[k |-> RawKey, v |-> [type |-> "str", text |-> paramsMatch[1]]]>>
    IN  IF nameMatch = <<>> THEN <<>>
        ELSE <<[name |-> Trim(nameMatch[1]), parameters |-> parameters]>>

\* A new ToolParser: buffer, inToolBlock, toolBuffer.
InitParser == [buffer |-> <<>>, inToolBlock |-> FALSE, toolBuffer |-> <<>>]

\* The text before an opening delimiter taken with the delimiter.
TextBefore_WithTag(buffer, toolStart) == Slice(buffer, 0, toolStart + Len(OpenTag))

\* The text addChunk returns when it finds the opening delimiter:
\* this.buffer.slice(0, toolStart).
TextBefore(buffer, toolStart) == Slice(buffer, 0, toolStart)

\* The while loop of ToolParser.addChunk, from parser state p with the
\* text and toolCalls gathered so far.
RECURSIVE addChunkLoop(_, _, _)
addChunkLoop(p, text, toolCalls) ==
    IF Len(p.buffer) = 0 THEN [p |-> p, text |-> text, toolCalls |-> toolCalls]
    ELSE IF ~p.inToolBlock
    THEN LET toolStart == IndexOf(p.buffer, OpenTag)
         IN  IF toolStart = -1
             THEN IF Len(p.buffer) > Withhold
                  THEN [p |-> [p EXCEPT !.buffer = SliceLast(p.buffer, Withhold)],
                        text |-> text \o SliceButLast(p.buffer, Withhold),
                        toolCalls |-> toolCalls]
                  ELSE [p |-> p, text |-> text, toolCalls |-> toolCalls]
             ELSE addChunkLoop(
                    [buffer |-> SliceFrom(p.buffer, toolStart + 6),
                     inToolBlock |-> TRUE,
                     toolBuffer |-> <<>>],
                    text \o TextBefore(p.buffer, toolStart),
                    toolCalls)
    ELSE LET toolBuffer == p.toolBuffer \o p.buffer
             toolEnd == IndexOf(toolBuffer, CloseTag)
         IN  IF toolEnd = -1
             THEN [p |-> [buffer |-> <<>>, inToolBlock |-> TRUE, toolBuffer |-> toolBuffer],
                   text |-> text, toolCalls |-> toolCalls]
             ELSE addChunkLoop(
                    [buffer |-> SliceFrom(toolBuffer, toolEnd + 7),
                     inToolBlock |-> FALSE,
                     toolBuffer |-> <<>>],
                    text,
                    toolCalls \o parseToolContent(Slice(toolBuffer, 0, toolEnd)))

\* ToolParser.addChunk(chunk) on parser state p: the new state, the text
\* and the tool calls returned (<<>> stands for null).
addChunk(p, chunk) ==
    addChunkLoop([p EXCEPT !.buffer = p.buffer \o chunk], <<>>, <<>>)

\* A flush that also returns the content of the tool block in progress.
flush_KeepBlock(p) == [p |-> InitParser, remaining |-> p.toolBuffer \o p.buffer]

\* ToolParser.flush() on parser state p: the new state and the string returned.
flush(p) == [p |-> InitParser, remaining |-> p.buffer]

\* ------------------------------------------------------------------------
\* The extractor alone: one response string fed to a ToolParser in
\* fragments of any sizes, then flushed.
\* ------------------------------------------------------------------------

VARIABLES
    xInput,     \* the response string
    xPos,       \* how many of its characters have been fed
    xParser,    \* the ToolParser (buffer, inToolBlock, toolBuffer)
    xText,      \* the texts returned so far, concatenated
    xCalls,     \* the tool calls returned so far, in order
    xFlushed,   \* whether flush has been called
    xSplit,     \* whether a fragment has ended strictly inside a delimiter
    xFlushes,   \* how many times flush has been called
    xRemaining  \* the string the last flush call returned

xvars == <<xInput, xPos, xParser, xText, xCalls, xFlushed, xSplit, xFlushes, xRemaining>>

\* The most pieces a response string of the extractor is made of.
MaxPieces == 3

\* The pieces the response strings are made of: plain text longer than the
\* withheld tail, a prefix of the opening delimiter, a complete tool block
\* with a name line, and each delimiter alone (an unterminated block, a
\* block without a name line, a stray closing delimiter).
Pieces ==
    { <<"a", "b", "c", "d", "e", "f", "g">>,
      <<"<", "t", "o">>,
      OpenTag \o NameKw \o <<"f">> \o CloseTag,
      OpenTag,
      CloseTag }

\* Whether 0-based position i of s lies strictly inside an occurrence of a
\* delimiter.
InsideDelimiter(s, i) ==
    \E j \in Max(0, i - Len(CloseTag))..(i - 1) :
        \/ OccursAt(s, OpenTag, j) /\ i < j + Len(OpenTag)
        \/ OccursAt(s, CloseTag, j) /\ i < j + Len(CloseTag)

\* The most flush calls on a parser.
MaxFlushes == 2

\* The most tool blocks with a parameters line in a response string.
MaxParamBlocks == 2

\* The texts of the parameters lines: a JSON object, a text in braces that
\* is not JSON, and a JSON object cut short before its closing brace.
ParamTexts ==
    { <<"{", "\"", "a", "\"", ":", "1", "}">>,
      <<"{", "a", "}">>,
      <<"{", "\"", "a", "\"", ":", "1">> }

\* A complete tool block with a name line and a parameters line.
ParamBlock(text) ==
    OpenTag \o NameKw \o <<"f", "\n">> \o ParamsKw \o text \o CloseTag

ParamPieces == {ParamBlock(text) : text \in ParamTexts}

RECURSIVE StringsOf(_, _)
StringsOf(pieces, n) ==
    IF n = 0 THEN {<<>>}
    ELSE LET shorter == StringsOf(pieces, n - 1)
         IN  shorter \cup {s \o q : s \in shorter, q \in pieces}

\* A new parser, nothing fed.
XNew ==
    /\ xPos = 0
    /\ xParser = InitParser
    /\ xText = <<>>
    /\ xCalls = <<>>
    /\ xFlushed = FALSE
    /\ xSplit = FALSE
    /\ xFlushes = 0
    /\ xRemaining = <<>>

XInit ==
    /\ xInput \in StringsOf(Pieces, MaxPieces)
    /\ XNew

\* The responses made of tool blocks with parameters lines.
XInitParams ==
    /\ xInput \in StringsOf(ParamPieces, MaxParamBlocks)
    /\ XNew

\* One addChunk call with the next n characters of the response.
XAddChunk ==
    /\ ~xFlushed
    /\ \E n \in 0..(Len(xInput) - xPos) :
          LET r == addChunk(xParser, Slice(xInput, xPos, xPos + n))
          IN  /\ xPos' = xPos + n
              /\ xParser' = r.p
              /\ xText' = xText \o r.text
              /\ xCalls' = xCalls \o r.toolCalls
              /\ xSplit' = (xSplit \/ InsideDelimiter(xInput, xPos + n))
    /\ UNCHANGED <<xInput, xFlushed, xFlushes, xRemaining>>

\* A flush call at the end of the stream.
XFlush ==
    /\ xFlushes < MaxFlushes
    /\ xPos = Len(xInput)
    /\ LET r == flush(xParser)
       IN  /\ xParser' = r.p
           /\ xText' = xText \o r.remaining
           /\ xRemaining' = r.remaining
    /\ xFlushed' = TRUE
    /\ xFlushes' = xFlushes + 1
    /\ UNCHANGED <<xInput, xPos, xCalls, xSplit>>


\* The whole string in one addChunk call, followed by flush.
WholeFeed(s) ==
    LET r == addChunk(InitParser, s)
    IN  [text |-> r.text \o flush(r.p).remaining, toolCalls |-> r.toolCalls]

\* C4: delimiter-split invariance. Once a response has been fed in fragments
\* of any sizes and flushed, the concatenated text and the sequence of tool
\* calls are those of feeding the whole response in one addChunk call
\* followed by flush.
C4_SplitInvariance ==
    xFlushed =>
        /\ xText = WholeFeed(xInput).text
        /\ xCalls = WholeFeed(xInput).toolCalls

\* A response with plain text and a complete tool block has been fed in
\* fragments of which one ended inside a delimiter, and flushed.
C4_Witness ==
    /\ xFlushed
    /\ xSplit
    /\ xCalls # <<>>
    /\ xText # <<>>

\* The response s read as a whole: where its first tool block opens and
\* closes (-1 when it does not), and what follows the block.
FirstOpen(s) == IndexOf(s, OpenTag)
FirstClose(s) == IndexOf(SliceFrom(s, FirstOpen(s) + Len(OpenTag)), CloseTag)
AfterFirstBlock(s) ==
    SliceFrom(s, FirstOpen(s) + Len(OpenTag) + FirstClose(s) + Len(CloseTag))

\* The plain text of s: what lies outside its tool blocks, an unterminated
\* block running to the end of s.
RECURSIVE PlainTextOf(_)
PlainTextOf(s) ==
    IF FirstOpen(s) = -1 THEN s
    ELSE Slice(s, 0, FirstOpen(s))
            \o (IF FirstClose(s) = -1 THEN <<>> ELSE PlainTextOf(AfterFirstBlock(s)))

\* Whether s ends inside a tool block.
RECURSIVE Unterminated(_)
Unterminated(s) ==
    /\ FirstOpen(s) # -1
    /\ FirstClose(s) = -1 \/ Unterminated(AfterFirstBlock(s))

\* The undecided text of s when s does not end inside a tool block: what
\* follows its last tool block, in which no opening delimiter was found.
RECURSIVE UndecidedOf(_)
UndecidedOf(s) ==
    IF FirstOpen(s) = -1 THEN s
    ELSE IF FirstClose(s) = -1 THEN <<>>
    ELSE UndecidedOf(AfterFirstBlock(s))

\* The parameters the claim C25 gives the call of a tool block: the parsed
\* object when the text is JSON, and {raw: text} when it is not.
ClaimedParameters(text) ==
    IF JsonParse(text).ok THEN JsonParse(text).obj
    ELSE <<[k |-> RawKey, v |-> [type |-> "str", text |-> text]]>>

\* The calls C25 gives a string of tool blocks with parameters lines.
RECURSIVE ClaimedCalls(_)
ClaimedCalls(s) ==
    IF \A text \in ParamTexts : ~OccursAt(s, ParamBlock(text), 0) THEN <<>>
    ELSE LET text == CHOOSE t \in ParamTexts : OccursAt(s, ParamBlock(t), 0)
         IN  <<[name |-> <<"f">>, parameters |-> ClaimedParameters(text)]>>
                \o ClaimedCalls(SliceFrom(s, Len(ParamBlock(text))))

\* C25: every completed tool block with a name line and a parameters line
\* yields a tool call: with the parsed object when the parameters are JSON,
\* and with {raw: text} when they are not; no block is dropped, and the
\* blocks after a malformed one yield their calls as well.
C25_MalformedGivesRaw ==
    (xFlushed /\ IndexOf(xInput, ParamsKw) # -1) => xCalls = ClaimedCalls(xInput)

\* C26: after a flush the parser is in its initial state and the texts
\* returned so far, by addChunk and by flush, are exactly the plain text of
\* the response: flush has returned the plain text that was withheld and
\* nothing of an unterminated tool block; and a second flush returns the
\* empty string.
C26_FlushDrains ==
    /\ xFlushes >= 1 =>
          /\ xParser = InitParser
          /\ xText = PlainTextOf(xInput)
          /\ Unterminated(xInput) => xRemaining = <<>>
    /\ xFlushes >= 2 => xRemaining = <<>>

\* A response that ends inside a tool block with content, after plain text,
\* was flushed twice.
C26_Witness ==
    /\ xFlushes = 2
    /\ Unterminated(xInput)
    /\ xText # <<>>
    /\ Len(xInput) > Len(xText) + Len(OpenTag)

\* Whenever the parser is outside a tool block after an addChunk call, it
\* withholds the last n characters of the undecided text (all of it when it
\* is not longer), and the text returned so far is the plain text before
\* them.
Withholds(n) ==
    (~xFlushed /\ ~xParser.inToolBlock) =>
        LET fed == Slice(xInput, 0, xPos)
        IN  /\ xParser.buffer = SliceLast(UndecidedOf(fed), n)
            /\ xText \o xParser.buffer = PlainTextOf(fed)

\* C30 as claimed: the withheld tail has N - 1 = 5 characters.
C30_WithholdsFive == Withholds(Len(OpenTag) - 1)

\* C30 as amended: the withheld tail has N = 6 characters, the length of
\* the opening delimiter.
C30_WithholdsSix == Withholds(Len(OpenTag))

\* After a tool block, plain text longer than the withheld tail was fed:
\* part of it was returned and the rest is withheld.
C30_Witness ==
    /\ ~xFlushed
    /\ ~xParser.inToolBlock
    /\ xCalls # <<>>
    /\ Len(xParser.buffer) = Len(OpenTag)
    /\ Len(UndecidedOf(Slice(xInput, 0, xPos))) > Len(OpenTag)

\* The calls of the complete tool blocks of s that have a name line, s read
\* as a whole.
RECURSIVE WellFormedCalls(_)
WellFormedCalls(s) ==
    IF FirstOpen(s) = -1 \/ FirstClose(s) = -1 THEN <<>>
    ELSE LET content == Slice(SliceFrom(s, FirstOpen(s) + Len(OpenTag)), 0, FirstClose(s))
         IN  (IF IndexOf(content, NameKw) = -1 THEN <<>> ELSE parseToolContent(content))
                \o WellFormedCalls(AfterFirstBlock(s))

\* C31: under every fragmentation, the text returned so far by addChunk and
\* flush is a prefix of the plain text of what was fed: no character of a
\* tool block, from its opening delimiter to its closing delimiter or to
\* the end of the stream, and no character of these delimiters is in it.
C31_NoBlockTextReturned ==
    LET plain == PlainTextOf(Slice(xInput, 0, xPos))
    IN  /\ Len(xText) <= Len(plain)
        /\ xText = SubSeq(plain, 1, Len(xText))

\* A response with plain text, a complete tool block and an unterminated
\* one was fed in fragments of which one ended inside a delimiter, and
\* flushed.
C31_Witness ==
    /\ xFlushed
    /\ xSplit
    /\ Unterminated(xInput)
    /\ xCalls # <<>>
    /\ xText # <<>>

\* ------------------------------------------------------------------------
\* SupervisorAgent: one execute invocation
\* ------------------------------------------------------------------------

\* JSON.stringify of a string: quoted, with the quote, the backslash and the
\* newline escaped.
RECURSIVE JsonEscape(_)
JsonEscape(s) ==
    IF s = <<>> THEN <<>>
    ELSE (CASE Head(s) = "\"" -> <<"\\", "\"">>
            [] Head(s) = "\\" -> <<"\\", "\\">>
            [] Head(s) = "\n" -> <<"\\", "n">>
            [] OTHER -> <<Head(s)>>) \o JsonEscape(Tail(s))

JsonQuote(s) == <<"\"">> \o JsonEscape(s) \o <<"\"">>

JsonValue(v) == IF v.type = "num" THEN v.text ELSE JsonQuote(v.text)

\* JSON.stringify of an object: its members in insertion order.
RECURSIVE JsonMembersText(_)
JsonMembersText(obj) ==
    IF obj = <<>> THEN <<>>
    ELSE JsonQuote(obj[1].k) \o <<":">> \o JsonValue(obj[1].v)
            \o (IF Len(obj) > 1 THEN <<",">> ELSE <<>>)
            \o JsonMembersText(Tail(obj))

JsonObject(obj) == <<"{">> \o JsonMembersText(obj) \o <<"}">>

\* JSON.stringify({ name: tc.name, parameters: tc.parameters })
DedupKey(tc) ==
    <<"{">> \o JsonQuote(<<"n", "a", "m", "e">>) \o <<":">> \o JsonQuote(tc.name)
        \o <<",">> \o JsonQuote(<<"p", "a", "r", "a", "m", "e", "t", "e", "r", "s">>)
        \o <<":">> \o JsonObject(tc.parameters) \o <<"}">>

\* SupervisorAgent.deduplicateToolCalls, with the keys seen so far.
RECURSIVE DedupFrom(_, _)
DedupFrom(toolCalls, seen) ==
    IF toolCalls = <<>> THEN <<>>
    ELSE LET key == DedupKey(Head(toolCalls))
         IN  IF key \in seen THEN DedupFrom(Tail(toolCalls), seen)
             ELSE <<Head(toolCalls)>> \o DedupFrom(Tail(toolCalls), seen \cup {key})

\* A deduplication that keeps every call.
deduplicateToolCalls_KeepAll(toolCalls) == toolCalls

deduplicateToolCalls(toolCalls) == DedupFrom(toolCalls, {})

\* The names executeTool knows: the built-in searches, and the web
\* interaction tools, of which WebUseTool performs some on the document and
\* hands the others to the widget-action collaborator.
knowledge_search == <<"k", "n", "o", "w", "l", "e", "d", "g", "e", "_", "s", "e", "a", "r", "c", "h">>
product_search == <<"p", "r", "o", "d", "u", "c", "t", "_", "s", "e", "a", "r", "c", "h">>
SearchTools == {knowledge_search, product_search}
WebActions ==
    { <<"c", "l", "i", "c", "k">>,
      <<"d", "o", "u", "b", "l", "e", "C", "l", "i", "c", "k">>,
      <<"s", "c", "r", "o", "l", "l">>,
      <<"s", "c", "r", "o", "l", "l", "T", "o", "E", "l", "e", "m", "e", "n", "t">>,
      <<"h", "i", "g", "h", "l", "i", "g", "h", "t">>,
      <<"d", "r", "a", "g">>,
      <<"d", "e", "e", "p", "C", "r", "a", "w", "l">>,
      <<"n", "a", "v", "i", "g", "a", "t", "e">> }
WidgetWebActions == {<<"d", "r", "a", "g">>, <<"d", "e", "e", "p", "C", "r", "a", "w", "l">>}

\* What the executor underneath a tool call does: it returns a result,
\* throws before it returns a promise, or returns a promise that rejects.
Outcomes == {"ok", "throws", "rejects"}

\* What an executor wrapped in try { return await ... } catch gives:
\* the manual executor in executeTool, and likewise the customer endpoint
\* (executeCustomerTool) and the search tools, which catch in their bodies.
Guarded(outcome) == IF outcome = "ok" THEN "ok" ELSE "failed"

\* WebUseTool.execute: the actions it performs itself are async methods
\* whose promise it returns from inside its try block without awaiting it,
\* and so is the promise of the widget-action collaborator for the other
\* actions; only an exception thrown before a promise exists is caught.
\* Without config.onWidgetAction the collaborator is a stub that succeeds.
WebUseTool(widget, name, outcome) ==
    IF name \in WidgetWebActions
    THEN IF ~widget \/ outcome = "ok" THEN "ok"
         ELSE IF outcome = "throws" THEN "failed" ELSE "threw"
    ELSE IF outcome = "ok" THEN "ok" ELSE "threw"

\* The error of the result for a name executeTool does not know, in the
\* parts of its template: `Unknown tool: ${name}. Available tools: ...`.
UnknownTool(name) == <<"Unknown tool: ", name, ". Available tools: ...">>

\* A default branch that hands every name to the widget-action collaborator
\* when there is one.
Delegated_Any(cfg, name) == cfg.widget /\ name = name

\* The test of the default branch of executeTool:
\* registeredTool && this.config.onWidgetAction.
Delegated(cfg, name) == name \in cfg.registered /\ cfg.widget

\* executeTool with the customer endpoint looked up before the manual
\* executor.
executeTool_CustomerFirst(cfg, name, outcome) ==
    IF name \in cfg.customer
    THEN [tier |-> "customer", result |-> Guarded(outcome), error |-> <<>>]
    ELSE IF name \in cfg.manual
    THEN [tier |-> "manual", result |-> Guarded(outcome), error |-> <<>>]
    ELSE [tier |-> "none", result |-> "failed", error |-> UnknownTool(name)]

\* SupervisorAgent.executeTool for a call of the given name, under the
\* configuration cfg (manual: the names of config.toolExecutors; registered:
\* the names of tenantConfig.tools; customer: those of them in CUSTOMER mode
\* with an endpoint; widget: whether config.onWidgetAction is set). The
\* result is "ok" or "failed" (a value with success true or false), or
\* "threw" when the promise of executeTool rejects; the error is that of
\* the result executeTool makes itself for a name it does not know.
executeTool(cfg, name, outcome) ==
    IF name \in cfg.manual
    THEN [tier |-> "manual", result |-> Guarded(outcome), error |-> <<>>]
    ELSE IF name \in cfg.customer
    THEN [tier |-> "customer", result |-> Guarded(outcome), error |-> <<>>]
    ELSE IF name \in SearchTools
    THEN [tier |-> "builtin", result |-> Guarded(outcome), error |-> <<>>]
    ELSE IF name \in WebActions
    THEN [tier |-> "web", result |-> WebUseTool(cfg.widget, name, outcome), error |-> <<>>]
    ELSE IF Delegated(cfg, name)
    THEN [tier |-> "widget", result |-> IF outcome = "ok" THEN "ok" ELSE "threw",
          error |-> <<>>]
    ELSE [tier |-> "none", result |-> "failed", error |-> UnknownTool(name)]

VARIABLES
    maxTurns,         \* config.maxTurns || 10
    pc,               \* where the execute invocation stands
    abortController,  \* whether this.abortController is set (not null)
    aborted,          \* abortController.signal.aborted
    turnCount,
    response,         \* the model response of the turn in progress
    delivered,        \* how many of its characters the stream has delivered
    chunks,           \* chunks.join(''): the content consumed in this turn
    toolParser,       \* the turn's ToolParser
    hasToolCalls,
    toolCalls,        \* the tool calls parsed in this turn
    uniqueToolCalls,
    results,          \* results[i]: the result of uniqueToolCalls[i], or "pending"
    settled,          \* the indices of the turn's executeTool promises that
                      \* have settled, in the order in which they did
    saved,            \* how many results the result loop has saved and emitted
    turnText,         \* the contents of the turn's text events, concatenated
    log,              \* the events emitted, and marks of what execute did
    memory            \* the session's message cache

avars == <<maxTurns, pc, abortController, aborted, turnCount, response, delivered,
           chunks, toolParser, hasToolCalls, toolCalls, uniqueToolCalls, results,
           settled, saved, turnText, log, memory>>

\* The largest maxTurns the model configures.
MaxTurnsBound == 2

NoCall == [name |-> <<>>, parameters |-> <<>>]

\* An entry of the log. The emitted events have type text, tool_call,
\* tool_result, done or error; the other types mark what execute did:
\* abort (the token was set), request (a model streaming request was
\* issued), streamed (the streaming loop of a turn ended), exec (executeTool
\* was called), continue (the result loop of a turn ended). Consecutive text
\* events are logged as one.
Entry(type, call, info) ==
    [type |-> type, turn |-> turnCount, call |-> call, info |-> info]

Emit(lg, e) ==
    IF e.type = "text" /\ lg # <<>> /\ lg[Len(lg)].type = "text" /\ lg[Len(lg)].turn = e.turn
    THEN lg
    ELSE Append(lg, e)

RECURSIVE EmitAll(_, _)
EmitAll(lg, es) == IF es = <<>> THEN lg ELSE EmitAll(Emit(lg, Head(es)), Tail(es))

\* The model responses of the turns.
Block(name) == OpenTag \o NameKw \o name \o CloseTag
PlainText == <<"a", "b", "c", "d", "e", "f", "g", "h">>
NamelessBlock == OpenTag \o <<"x">> \o CloseTag
Responses ==
    { PlainText,
      Block(<<"f">>),
      <<"a", "b">> \o Block(<<"f">>) \o PlainText,
      Block(<<"g">>) \o Block(<<"f">>) \o Block(<<"g">>),
      NamelessBlock,
      NamelessBlock \o Block(<<"f">>) }

\* The configuration of the agent: a manual executor for f, g a tool of the
\* tenant's registry that goes to the widget-action collaborator, and a
\* trace sink (config.onTrace).
AgentConfig ==
    [manual |-> {<<"f">>}, registered |-> {<<"g">>}, customer |-> {}, widget |-> TRUE,
     onTrace |-> TRUE]

\* The messages of the errors execute catches from its collaborators.
PromptFailure == "prompt failure"
StreamFailure == "stream failure"
ToolFailure == "tool failure"
TraceFailure == "trace failure"

\* The end of streamLLM, where the trace of the turn is reported: to
\* config.onTrace when it is set, by a call that is neither awaited nor
\* inside a try block, so that only an exception the sink throws reaches
\* streamLLM; otherwise to client.saveTrace, awaited inside a try block
\* whose catch logs the failure. "threw" when streamLLM rejects.
reportTrace(cfg, outcome) ==
    IF cfg.onTrace
    THEN IF outcome = "throws" THEN "threw" ELSE "reported"
    ELSE IF outcome = "ok" THEN "reported" ELSE "logged"

AInit ==
    /\ maxTurns \in 1..MaxTurnsBound
    /\ pc = "ensureSession"
    /\ abortController = FALSE
    /\ aborted = FALSE
    /\ turnCount = 0
    /\ response = <<>>
    /\ delivered = 0
    /\ chunks = <<>>
    /\ toolParser = InitParser
    /\ hasToolCalls = FALSE
    /\ toolCalls = <<>>
    /\ uniqueToolCalls = <<>>
    /\ results = <<>>
    /\ settled = <<>>
    /\ saved = 0
    /\ turnText = <<>>
    /\ log = <<>>
    /\ memory = <<>>

\* MemoryManager.saveMessage on the cache of the invocation's session, which
\* stays shorter than the compaction threshold within the turn limits of
\* this part (the compaction itself is modelled with the MemoryManager).
SaveMessage(mem, role, content) == Append(mem, [role |-> role, content |-> content])

\* The test after the loop made with a turn count that is never reached.
AfterLoop_Beyond(lg) ==
    IF turnCount > maxTurns
    THEN Emit(lg, Entry("error", NoCall, "Max turns reached"))
    ELSE lg

\* The test after the loop: the turn-limit error.
AfterLoop(lg) ==
    IF turnCount >= maxTurns
    THEN Emit(lg, Entry("error", NoCall, "Max turns reached"))
    ELSE lg

\* The loop condition, with a turn limit that allows one turn too many.
LoopCondition_Inclusive == turnCount <= maxTurns

\* The condition of the while loop.
LoopCondition == turnCount < maxTurns

\* execute, from the creation of the AbortController to the loop: the user
\* message is saved.
Begin ==
    /\ pc = "ensureSession"
    /\ abortController' = TRUE
    /\ aborted' = FALSE
    /\ memory' = SaveMessage(memory, "user", <<"q">>)
    /\ pc' = "loopTop"
    /\ UNCHANGED <<maxTurns, settled, turnCount, response, delivered, chunks, toolParser,
                   hasToolCalls, toolCalls, uniqueToolCalls, results, saved,
                   turnText, log>>

\* A cancellation check that never finds the token set.
Cancelled_Never == aborted /\ ~abortController

\* The cancellation check at the top of the loop:
\* this.abortController.signal.aborted.
Cancelled == aborted

\* The top of the loop: the loop condition and the cancellation check; when
\* the loop is left, the test after it and the finally block.
LoopTop ==
    /\ pc = "loopTop"
    /\ IF LoopCondition /\ ~Cancelled
       THEN /\ turnCount' = turnCount + 1
            /\ pc' = "buildPrompt"
            /\ UNCHANGED <<log, abortController>>
       ELSE /\ log' = AfterLoop(IF LoopCondition
                                THEN Emit(log, Entry("error", NoCall, "Execution aborted by user"))
                                ELSE log)
            /\ pc' = "returned"
            /\ abortController' = FALSE
            /\ UNCHANGED turnCount
    /\ settled' = <<>>
    /\ UNCHANGED <<maxTurns, aborted, response, delivered, chunks, toolParser,
                   hasToolCalls, toolCalls, uniqueToolCalls, results, saved,
                   turnText, memory>>

\* The prompt is built and streamLLM issues the streaming request.
StartStream ==
    /\ pc = "buildPrompt"
    /\ response' \in Responses
    /\ delivered' = 0
    /\ chunks' = <<>>
    /\ toolParser' = InitParser
    /\ hasToolCalls' = FALSE
    /\ toolCalls' = <<>>
    /\ turnText' = <<>>
    /\ log' = Emit(log, Entry("request", NoCall, ""))
    /\ pc' = "stream"
    /\ UNCHANGED <<maxTurns, settled, abortController, aborted, turnCount, uniqueToolCalls,
                   results, saved, memory>>

\* The token was set while the prompt was built, and the transport rejects
\* the request made with it; execute catches the exception and reports it.
\* (A transport that does not look at a token already set issues the
\* request: StartStream.)
RequestRejected ==
    /\ pc = "buildPrompt"
    /\ aborted
    /\ log' = Emit(log, Entry("error", NoCall, "Request was aborted."))
    /\ pc' = "returned"
    /\ abortController' = FALSE
    /\ UNCHANGED <<maxTurns, settled, aborted, turnCount, response, delivered, chunks,
                   toolParser, hasToolCalls, toolCalls, uniqueToolCalls, results,
                   saved, turnText, memory>>

\* One iteration of the streaming loop of streamLLM on a fragment of n
\* characters, the token not being set.
StreamChunk ==
    /\ pc = "stream"
    /\ ~aborted
    /\ \E n \in 1..(Len(response) - delivered) :
          LET content == Slice(response, delivered, delivered + n)
              r == addChunk(toolParser, content)
              shown == r.text # <<>> /\ ~hasToolCalls
              lg == IF shown THEN Emit(log, Entry("text", NoCall, "")) ELSE log
          IN  /\ delivered' = delivered + n
              /\ chunks' = chunks \o content
              /\ toolParser' = r.p
              /\ turnText' = IF shown THEN turnText \o r.text ELSE turnText
              /\ hasToolCalls' = (hasToolCalls \/ r.toolCalls # <<>>)
              /\ toolCalls' = toolCalls \o r.toolCalls
              /\ log' = EmitAll(lg, [i \in 1..Len(r.toolCalls) |->
                                        Entry("tool_call", r.toolCalls[i], "")])
    /\ UNCHANGED <<maxTurns, settled, pc, abortController, aborted, turnCount, response,
                   uniqueToolCalls, results, saved, memory>>

\* The streaming loop ends, at the end of the stream or at the break of the
\* cancellation check, and streamLLM flushes the parser: the parser, the
\* text shown and the log after it.
Flushed ==
    LET r == flush(toolParser)
        shown == r.remaining # <<>> /\ ~hasToolCalls
        lg == IF shown THEN Emit(log, Entry("text", NoCall, "")) ELSE log
    IN  [p |-> r.p,
         turnText |-> IF shown THEN turnText \o r.remaining ELSE turnText,
         log |-> Emit(lg, Entry("streamed", NoCall, ""))]

\* The streaming loop ends, streamLLM flushes the parser, reports the trace
\* and returns, and execute saves the assistant message.
StreamEnd ==
    /\ pc = "stream"
    /\ aborted \/ delivered = Len(response)
    /\ \E outcome \in Outcomes : reportTrace(AgentConfig, outcome) # "threw"
    /\ toolParser' = Flushed.p
    /\ turnText' = Flushed.turnText
    /\ log' = Flushed.log
    /\ memory' = SaveMessage(memory, "assistant", chunks)
    /\ pc' = "afterSave"
    /\ UNCHANGED <<maxTurns, settled, abortController, aborted, turnCount, response, delivered,
                   chunks, hasToolCalls, toolCalls, uniqueToolCalls, results, saved>>

\* After the assistant message is saved: with tool calls, they are
\* deduplicated and executeTool is called for each; with none, done is
\* emitted, the loop is left, and the test after it and the finally block run.
HandleResponse ==
    /\ pc = "afterSave"
    /\ IF toolCalls # <<>>
       THEN LET unique == deduplicateToolCalls(toolCalls)
            IN  /\ uniqueToolCalls' = unique
                /\ results' = [i \in 1..Len(unique) |-> "pending"]
                /\ saved' = 0
                /\ log' = EmitAll(log, [i \in 1..Len(unique) |-> Entry("exec", unique[i], "")])
                /\ pc' = "tools"
                /\ UNCHANGED abortController
       ELSE /\ log' = AfterLoop(Emit(log, Entry("done", NoCall, "")))
            /\ pc' = "returned"
            /\ abortController' = FALSE
            /\ UNCHANGED <<uniqueToolCalls, results, saved>>
    /\ settled' = <<>>
    /\ UNCHANGED <<maxTurns, aborted, turnCount, response, delivered, chunks,
                   toolParser, hasToolCalls, toolCalls, turnText, memory>>

\* The promise of executeTool for uniqueToolCalls[i] settles.
ToolComplete(i) ==
    /\ pc = "tools"
    /\ i \in 1..Len(results)
    /\ results[i] = "pending"
    /\ \E outcome \in Outcomes :
          results' = [results EXCEPT
                         ![i] = executeTool(AgentConfig, uniqueToolCalls[i].name, outcome).result]
    /\ settled' = Append(settled, i)
    /\ UNCHANGED <<maxTurns, pc, abortController, aborted, turnCount, response,
                   delivered, chunks, toolParser, hasToolCalls, toolCalls,
                   uniqueToolCalls, saved, turnText, log, memory>>

\* The index the result loop takes next, going through the results from the
\* last to the first.
ResultIndex_Backwards(res, done) == Len(res) - done

\* The index the result loop takes next: i of for (let i = 0; ...; i++),
\* counted from 1.
ResultIndex(res, done) == done + 1

\* A result loop that leaves one result out: i < uniqueToolCalls.length - 1.
ResultLoopEnds_Early(done, calls) == done >= Len(calls) - 1

\* Whether the result loop has ended after `done` iterations:
\* the negation of i < uniqueToolCalls.length.
ResultLoopEnds(done, calls) == done >= Len(calls)

\* One iteration of the result loop, once Promise.all has resolved: the
\* result message is saved and tool_result is emitted; after the last one
\* the loop continues with the next turn.
SaveResult ==
    /\ pc = "tools"
    /\ \A i \in 1..Len(results) : results[i] \notin {"pending", "threw"}
    /\ saved < Len(uniqueToolCalls)
    /\ LET i == ResultIndex(results, saved)
           lg == Emit(log, Entry("tool_result", uniqueToolCalls[i], results[i]))
       IN  /\ memory' = SaveMessage(memory, "system",
                                    <<"Tool Result", uniqueToolCalls[i].name, results[i]>>)
           /\ saved' = saved + 1
           /\ IF ResultLoopEnds(saved + 1, uniqueToolCalls)
              THEN /\ log' = Emit(lg, Entry("continue", NoCall, ""))
                   /\ pc' = "loopTop"
              ELSE /\ log' = lg
                   /\ pc' = "tools"
    /\ UNCHANGED <<maxTurns, settled, abortController, aborted, turnCount, response, delivered,
                   chunks, toolParser, hasToolCalls, toolCalls, uniqueToolCalls,
                   results, turnText>>

\* The catch and finally blocks of execute: the error is emitted and the
\* invocation ends.
Caught(message) ==
    /\ log' = Emit(log, Entry("error", NoCall, message))
    /\ pc' = "returned"
    /\ abortController' = FALSE
    /\ UNCHANGED <<maxTurns, settled, aborted, turnCount, response, delivered, chunks,
                   toolParser, hasToolCalls, toolCalls, uniqueToolCalls, results,
                   saved, turnText, memory>>

\* promptBuilder.buildPrompt fails.
PromptFails ==
    /\ pc = "buildPrompt"
    /\ Caught(PromptFailure)

\* The streaming request or the iteration of the stream fails.
StreamFails ==
    /\ pc = "stream"
    /\ delivered < Len(response)
    /\ Caught(StreamFailure)

\* The streaming loop ends and streamLLM flushes the parser; the report of
\* the trace throws, streamLLM rejects, and execute catches the exception.
TraceFails ==
    /\ pc = "stream"
    /\ aborted \/ delivered = Len(response)
    /\ \E outcome \in Outcomes : reportTrace(AgentConfig, outcome) = "threw"
    /\ toolParser' = Flushed.p
    /\ turnText' = Flushed.turnText
    /\ log' = Emit(Flushed.log, Entry("error", NoCall, TraceFailure))
    /\ pc' = "returned"
    /\ abortController' = FALSE
    /\ UNCHANGED <<maxTurns, settled, aborted, turnCount, response, delivered, chunks,
                   hasToolCalls, toolCalls, uniqueToolCalls, results, saved, memory>>

\* Promise.all rejects because the promise of an executeTool call has
\* rejected.
ToolRejected ==
    /\ pc = "tools"
    /\ \E i \in 1..Len(results) : results[i] = "threw"
    /\ Caught(ToolFailure)

\* SupervisorAgent.abort() during the invocation.
Abort ==
    /\ abortController
    /\ ~aborted
    /\ aborted' = TRUE
    /\ log' = Emit(log, Entry("abort", NoCall,
                          IF pc = "stream" /\ 0 < delivered /\ delivered < Len(response)
                          THEN "mid-stream" ELSE pc))
    /\ UNCHANGED <<maxTurns, settled, pc, abortController, turnCount, response, delivered,
                   chunks, toolParser, hasToolCalls, toolCalls, uniqueToolCalls,
                   results, saved, turnText, memory>>

\* ------------------------------------------------------------------------
\* Properties of one execute invocation
\* ------------------------------------------------------------------------

\* The entries of the log of the given type, in order.
OfType(lg, type) == SelectSeq(lg, LAMBDA e : e.type = type)
OfTurn(lg, t) == SelectSeq(lg, LAMBDA e : e.turn = t)
Terminal(lg) == SelectSeq(lg, LAMBDA e : e.type \in {"done", "error"})
CallsOf(es) == [i \in 1..Len(es) |-> es[i].call]

Range(q) == {q[i] : i \in 1..Len(q)}
NoRepeat(q) == \A i, j \in 1..Len(q) : q[i] = q[j] => i = j
FirstIndex(q, x) == CHOOSE i \in 1..Len(q) : q[i] = x /\ \A j \in 1..(i - 1) : q[j] # x
IsPrefix(a, b) == Len(a) <= Len(b) /\ SubSeq(b, 1, Len(a)) = a

\* Whether `kept` is `all` with every value kept once, at its first place.
IsFirstSeenOrder(kept, all) ==
    /\ NoRepeat(kept)
    /\ Range(kept) = Range(all)
    /\ \A i, j \in 1..Len(kept) :
          i < j => FirstIndex(all, kept[i]) < FirstIndex(all, kept[j])

\* C1: an execute invocation that enters the turn loop emits exactly one
\* terminal event (done or error) in total: never more than one, and one
\* once it has returned.
C1_OneTerminalEvent ==
    /\ Len(Terminal(log)) <= 1
    /\ pc = "returned" => Len(Terminal(log)) = 1

\* C2: the number of model streaming requests issued by an invocation never
\* exceeds maxTurns.
C2_TurnBound == Len(OfType(log, "request")) <= maxTurns

\* An invocation with the largest turn limit has returned after issuing as
\* many requests as the limit allows, each turn having executed tools.
C2_Witness ==
    /\ pc = "returned"
    /\ maxTurns = MaxTurnsBound
    /\ Len(OfType(log, "request")) = maxTurns
    /\ Len(OfType(log, "tool_result")) >= maxTurns

CallEnds(resp) ==
    {e \in 1..Len(resp) : addChunk(InitParser, Slice(resp, 0, e)).toolCalls # <<>>}
FirstCallEnd(resp) == CHOOSE e \in CallEnds(resp) : \A d \in CallEnds(resp) : e <= d
TextBeforeFirstCall(resp) ==
    addChunk(InitParser, Slice(resp, 0, FirstCallEnd(resp))).text

\* C5: within a turn no text event carries text that lies after the closing
\* delimiter of a completed tool block: the text forwarded in the turn is
\* always a prefix of the plain text that precedes the end of the first
\* tool call of the response.
C5_NoTextAfterToolCall ==
    (pc \in {"stream", "afterSave", "tools"} /\ CallEnds(response) # {}) =>
        IsPrefix(turnText, TextBeforeFirstCall(response))

\* Whether the token was set while a model stream was being consumed.
AbortedMidStream == \E i \in 1..Len(log) : log[i].type = "abort" /\ log[i].info = "mid-stream"

\* C6: if the cancellation token is set while a turn's model stream is being
\* consumed, done is never emitted, and the terminal event of the invocation
\* is the aborted error.
C6_AbortEndsAborted ==
    AbortedMidStream =>
        /\ OfType(log, "done") = <<>>
        /\ pc = "returned" =>
              /\ Terminal(log) # <<>>
              /\ \A i \in 1..Len(Terminal(log)) :
                    /\ Terminal(log)[i].type = "error"
                    /\ Terminal(log)[i].info = "Execution aborted by user"

\* C7: if the cancellation token is set while a turn's model stream is being
\* consumed, no text event is emitted after that point.
C7_NoTextAfterAbort ==
    \A i, j \in 1..Len(log) :
        (i < j /\ log[i].type = "abort" /\ log[i].info = "mid-stream") => log[j].type # "text"

\* C8: once the cancellation token is set while a turn's model stream is
\* being consumed, the invocation starts no tool execution and issues no
\* further model request.
C8_NoExecAfterAbort ==
    \A i, j \in 1..Len(log) :
        (i < j /\ log[i].type = "abort" /\ log[i].info = "mid-stream") =>
            log[j].type \notin {"exec", "request"}

\* The values of a sequence, each once, in the order of their first places.
RECURSIVE FirstSeen(_)
FirstSeen(q) ==
    IF q = <<>> THEN <<>>
    ELSE LET r == FirstSeen(SubSeq(q, 1, Len(q) - 1))
         IN  IF q[Len(q)] \in Range(r) THEN r ELSE Append(r, q[Len(q)])

\* The tool-result messages of the memory, as name and result.
ResultMessages == SelectSeq(memory, LAMBDA m : m.role = "system")

\* C16: in every turn the tool_result events are emitted in the order in
\* which their tool calls were first detected in the stream (all of them
\* once the turn's result loop has ended), whatever the order in which the
\* executions completed, and the tool-result messages of the memory are in
\* the order of the tool_result events.
C16_ResultsInDetectionOrder ==
    /\ \A t \in 1..turnCount :
          LET detected == FirstSeen(CallsOf(OfType(OfTurn(log, t), "tool_call")))
              emitted == CallsOf(OfType(OfTurn(log, t), "tool_result"))
          IN  /\ IsPrefix(emitted, detected)
              /\ OfType(OfTurn(log, t), "continue") # <<>> => emitted = detected
    /\ LET events == OfType(log, "tool_result")
       IN  /\ Len(ResultMessages) = Len(events)
           /\ \A i \in 1..Len(events) :
                 ResultMessages[i].content =
                     <<"Tool Result", events[i].call.name, events[i].info>>

\* A turn with two tool calls whose executions completed in the order
\* opposite to their detection, and whose results were both emitted.
C16_Witness ==
    /\ settled = <<2, 1>>
    /\ saved = 2
    /\ Len(OfType(OfTurn(log, turnCount), "tool_result")) = 2

\* C17: no executeTool call ends by throwing, whichever tier handles it; a
\* failed executor gives a result, so that when execute has returned every
\* tool call that was executed has its tool_result event.
C17_FailuresBecomeResults ==
    /\ \A i \in 1..Len(results) : results[i] # "threw"
    /\ pc = "returned" =>
          \A t \in 1..turnCount :
              CallsOf(OfType(OfTurn(log, t), "tool_result")) =
                  CallsOf(OfType(OfTurn(log, t), "exec"))

\* C18: execute ends by returning, after a terminal event, whatever
\* failed; a failure of prompt building or of model streaming gives an
\* error event that ends the invocation (no request or tool execution
\* follows it); and a failure of a tool execution does not end the loop: no
\* error event carries the failure of a tool.
C18_FailuresAreContained ==
    /\ pc = "returned" => (abortController = FALSE /\ Terminal(log) # <<>>)
    /\ \A i, j \in 1..Len(log) :
          (i < j /\ log[i].type = "error" /\ log[i].info \in {PromptFailure, StreamFailure})
              => log[j].type \notin {"request", "exec", "tool_result", "done"}
    /\ \A i \in 1..Len(log) : log[i].type = "error" => log[i].info # ToolFailure

\* The events execute has emitted, in order, and their types.
Emitted(lg) ==
    SelectSeq(lg, LAMBDA e : e.type \in {"text", "tool_call", "tool_result", "done", "error"})
TypesOf(es) == [i \in 1..Len(es) |-> es[i].type]

AssistantMessages == SelectSeq(memory, LAMBDA m : m.role = "assistant")

\* How many of the first n messages of the memory are assistant messages.
AssistantsBefore(n) ==
    Cardinality({i \in 1..n : i <= Len(memory) /\ memory[i].role = "assistant"})

\* The places of the tool-result messages in the memory, in order.
ResultPlaces ==
    LET places == {i \in 1..Len(memory) : memory[i].role = "system"}
    IN  [k \in 1..Cardinality(places) |->
            CHOOSE i \in places : Cardinality({j \in places : j <= i}) = k]

\* C23: the turns whose model stream has ended have one assistant message
\* each in the memory, in the order of the turns; the message of the turn in
\* progress is the concatenation of the fragments received in it; and every
\* tool-result message of a turn comes after the assistant message of that
\* turn (and before that of the next turn).
C23_OneAssistantMessagePerTurn ==
    /\ Len(AssistantMessages) = Len(OfType(log, "streamed"))
    /\ OfType(OfTurn(log, turnCount), "streamed") # <<>> =>
          /\ AssistantMessages # <<>>
          /\ AssistantMessages[Len(AssistantMessages)].content = chunks
          /\ chunks = Slice(response, 0, delivered)
    /\ LET events == OfType(log, "tool_result")
       IN  /\ Len(ResultPlaces) = Len(events)
           /\ \A k \in 1..Len(events) :
                 AssistantsBefore(ResultPlaces[k]) = events[k].turn

\* C24: when the prompt of a turn is being built or its model request is in
\* progress, the assistant message of every earlier turn and the result
\* message of every tool execution started in an earlier turn are in the
\* memory cache.
C24_TurnsSequential ==
    pc \in {"buildPrompt", "stream"} =>
        /\ Len(AssistantMessages) = turnCount - 1
        /\ Len(ResultMessages) = Len(OfType(log, "exec"))
        /\ OfType(OfTurn(log, turnCount), "exec") = <<>>
        /\ \A t \in 1..(turnCount - 1) :
              /\ OfType(OfTurn(log, t), "streamed") # <<>>
              /\ OfType(OfTurn(log, t), "continue") # <<>>

\* The request of a second turn is in progress after a first turn that
\* executed two tool calls.
C24_Witness ==
    /\ pc = "stream"
    /\ turnCount = 2
    /\ delivered > 0
    /\ Len(ResultMessages) = 2
    /\ Len(AssistantMessages) = 1

\* C27: a failure of the report of a turn's trace does not fail the turn:
\* no error event carries it, and a turn whose stream has ended goes on (its
\* assistant message is saved, its tool calls are executed or done is
\* emitted).
C27_TraceFailureContained ==
    /\ \A i \in 1..Len(log) : log[i].type = "error" => log[i].info # TraceFailure
    /\ Len(AssistantMessages) = Len(OfType(log, "streamed"))

\* C29: when the token is set at the top of the loop and a turn remains,
\* the next step of the invocation emits the error 'Execution aborted by
\* user' and ends the invocation, that error being its only terminal event:
\* no prompt is built and no request is issued for the turn.
C29_AbortedBeforeTurn ==
    [][(pc = "loopTop" /\ aborted /\ LoopCondition) =>
          /\ pc' = "returned"
          /\ turnCount' = turnCount
          /\ log' = Append(log, Entry("error", NoCall, "Execution aborted by user"))
          /\ Len(Terminal(log')) = 1]_avars

\* An invocation has ended with the aborted error at the top of a turn that
\* followed a turn with tool calls, during which the token was set.
C29_Witness ==
    /\ pc = "returned"
    /\ turnCount < maxTurns
    /\ OfType(log, "continue") # <<>>
    /\ log[Len(log)].info = "Execution aborted by user"
    /\ \E i \in 1..Len(log) : log[i].type = "abort" /\ log[i].info = "tools"

\* C40: when the stream of a turn has been consumed to its end, the tool
\* calls of the turn are those of the complete tool blocks that have a name
\* line, a block without one giving no call and taking none of a later
\* block away; and a turn whose tool blocks are all without name line is
\* handled as a turn without tool calls: the step execute takes next
\* executes nothing, emits done and leaves the loop.
C40_NamelessBlockIgnored ==
    /\ []((pc \in {"afterSave", "tools"} /\ delivered = Len(response)) =>
             toolCalls = WellFormedCalls(response))
    /\ [][(pc = "afterSave" /\ delivered = Len(response) /\ FirstOpen(response) # -1
              /\ WellFormedCalls(response) = <<>> /\ pc' # pc) =>
             /\ pc' = "returned"
             /\ OfType(OfTurn(log', turnCount), "done") # <<>>
             /\ OfType(OfTurn(log', turnCount), "exec") = <<>>
             /\ OfType(OfTurn(log', turnCount), "tool_call") = <<>>]_avars

\* A turn whose response was one tool block without name line has ended
\* with done, after a turn that executed a tool call.
C40_Witness ==
    /\ pc = "returned"
    /\ turnCount = 2
    /\ response = NamelessBlock
    /\ delivered = Len(response)
    /\ OfType(OfTurn(log, 2), "done") # <<>>
    /\ OfType(OfTurn(log, 1), "tool_result") # <<>>

\* ------------------------------------------------------------------------
\* MemoryManager: the message cache of one session and its compaction
\* ------------------------------------------------------------------------

MAX_MESSAGES == 20
COMPACT_THRESHOLD == 15
KEEP_RECENT == 10
MAX_TOKENS_ESTIMATE == 8000

VARIABLES
    messageCache,       \* messageCache.get(sessionId): the cached messages
    compactedMemories,  \* compactedMemories.get(sessionId)
    appended,           \* how many messages saveMessage has appended
    msgChars,           \* the content length of the session's messages
    toStart,            \* saveMessage calls that await shouldCompact, having
                        \* found it true, and will call compactMemory
    inFlight,           \* the compactMemory calls that await generateSummary,
                        \* each with its messages, toCompact and toKeep
    toReturn,           \* saveMessage calls that await shouldCompact, having
                        \* found it false, and will return
    syncing,            \* how many client.saveMessage promises are not settled
    syncLogged,         \* whether 'Failed to sync message to API' was logged
    cleared,            \* whether clearMessages was called and neither
                        \* saveMessage nor setMessages since
    resets              \* how many clearMessages and setMessages calls were made

mvars == <<messageCache, compactedMemories, appended, msgChars, toStart, inFlight,
           toReturn, syncing, syncLogged, cleared, resets>>

\* The state of executeTool calls under the configurations of an agent.
VARIABLES
    tConfig,    \* the configuration: config.toolExecutors, tenantConfig.tools,
                \* config.onWidgetAction
    tName,      \* the name of the tool call executed last
    tOutcome,   \* what the executor underneath it did
    tResult     \* what executeTool gave

tvars == <<tConfig, tName, tOutcome, tResult>>

\* The state of the execute invocations on one agent instance.
VARIABLES
    rPc,          \* rPc[k]: where invocation k stands
    rTurn,        \* rTurn[k]: its turnCount
    rEnd,         \* rEnd[k]: the terminal event it emitted
    rController,  \* this.abortController: 0 for null, or k for the
                  \* AbortController invocation k created
    rAborted,     \* the AbortControllers whose signal is aborted
    rInitialized, \* this.initialized
    rAbortCalls   \* the invocations that were in flight at a call of abort()

rvars == <<rPc, rTurn, rEnd, rController, rAborted, rInitialized, rAbortCalls>>

\* The state of one executeCustomerTool call.
VARIABLES
    cMaxRetries,  \* execution.maxRetries
    cPc,          \* where the call stands: at a request, at a wait, returned
    cAttempt,     \* attempt of the for loop
    cRequests,    \* how many fetch requests were made
    cWaits,       \* the waits before the retries, in milliseconds, in order
    cErrors,      \* the errors caught, in order; the last one is lastError
    cResult       \* the result returned

cvars == <<cMaxRetries, cPc, cAttempt, cRequests, cWaits, cErrors, cResult>>

\* The state of one deduplicateToolCalls call.
VARIABLES
    dCalls,   \* the tool calls of the turn, as the parser gave them
    dUnique,  \* what deduplicateToolCalls returned
    dDone     \* whether it has returned

dvars == <<dCalls, dUnique, dDone>>

\* All the variables of the module.
vars == <<xvars, avars, mvars, tvars, rvars, cvars, dvars>>

\* The most messages appended to the session.
MaxAppends == 21

\* The most compactions started and not ended at a time.
MaxCompactions == 2

\* The most saveMessage calls suspended before their return at a time, and
\* the most client.saveMessage promises unsettled at a time.
MaxReturns == 1
MaxSyncs == 1

\* The content lengths of the messages of a session (short ones, long ones
\* that reach the token budget at the 16th message, and longer ones that
\* reach it before the 15th), and of the summary message the model writes.
MessageChars == {4, 1300, 1500}
SummaryChars == {2000}

\* The length of the summary message when generateSummary has caught a
\* failure: '[Memory Summary]', a newline, 'Summary generation failed'.
FailedSummaryChars == Len("[Memory Summary]") + 1 + Len("Summary generation failed")

\* Math.ceil(length / 2.5)
TokensOf(chars) == (2 * chars + 4) \div 5

\* MemoryManager.estimateTokens, for messages with string content.
RECURSIVE estimateTokens(_)
estimateTokens(messages) ==
    IF messages = <<>> THEN 0
    ELSE TokensOf(Head(messages).chars) + estimateTokens(Tail(messages))

\* shouldCompact without its test of the compaction threshold.
shouldCompact_NoThreshold(messages) ==
    Len(messages) > MAX_MESSAGES \/ estimateTokens(messages) > MAX_TOKENS_ESTIMATE

\* MemoryManager.shouldCompact
shouldCompact(messages) ==
    IF Len(messages) < COMPACT_THRESHOLD THEN FALSE
    ELSE Len(messages) > MAX_MESSAGES \/ estimateTokens(messages) > MAX_TOKENS_ESTIMATE

\* messages.slice(0, -KEEP_RECENT) taken one message short.
ToCompact_OneShort(messages) == SubSeq(messages, 1, Max(Len(messages) - KEEP_RECENT - 1, 0))

\* compactMemory's toCompact: messages.slice(0, -KEEP_RECENT)
ToCompact(messages) == SubSeq(messages, 1, Max(Len(messages) - KEEP_RECENT, 0))

\* messages.slice(-KEEP_RECENT) taken one message short.
ToKeep_OneShort(messages) ==
    SubSeq(messages, Max(Len(messages) - KEEP_RECENT + 1, 0) + 1, Len(messages))

\* compactMemory's toKeep: messages.slice(-KEEP_RECENT)
ToKeep(messages) == SubSeq(messages, Max(Len(messages) - KEEP_RECENT, 0) + 1, Len(messages))

\* What the handler of a rejected client.saveMessage promise does to the
\* cache when it also takes the newest message back.
SyncFailed_TakeBack(cache) == SubSeq(cache, 1, Len(cache) - 1)

\* What the handler of a rejected client.saveMessage promise does to the
\* cache: it logs the error and nothing else.
SyncFailed(cache) == cache

\* The cache compactMemory sets, with the summary after the kept messages.
CompactedCache_SummaryLast(summaryMessage, toKeep) == toKeep \o <<summaryMessage>>

\* The cache compactMemory sets: [summaryMessage, ...toKeep].
CompactedCache(summaryMessage, toKeep) == <<summaryMessage>> \o toKeep

MInit ==
    /\ messageCache = <<>>
    /\ compactedMemories = <<>>
    /\ appended = 0
    /\ msgChars \in MessageChars
    /\ toStart = 0
    /\ inFlight = <<>>
    /\ toReturn = 0
    /\ syncing = 0
    /\ syncLogged = FALSE
    /\ cleared = FALSE
    /\ resets = 0

MIdle ==
    /\ messageCache = <<>>
    /\ compactedMemories = <<>>
    /\ appended = 0
    /\ msgChars = 0
    /\ toStart = 0
    /\ inFlight = <<>>
    /\ toReturn = 0
    /\ syncing = 0
    /\ syncLogged = FALSE
    /\ cleared = FALSE
    /\ resets = 0

\* saveMessage up to its await: the message is pushed to the cache, the
\* client.saveMessage request is started and left to settle on its own, and
\* shouldCompact is evaluated.
MSaveMessage ==
    /\ appended < MaxAppends
    /\ syncing < MaxSyncs
    /\ LET message == [id |-> appended + 1, chars |-> msgChars, summary |-> FALSE,
                       failed |-> FALSE]
           messages == Append(messageCache, message)
       IN  /\ shouldCompact(messages) => toStart + Len(inFlight) < MaxCompactions
           /\ ~shouldCompact(messages) => toReturn < MaxReturns
           /\ messageCache' = messages
           /\ toStart' = IF shouldCompact(messages) THEN toStart + 1 ELSE toStart
           /\ toReturn' = IF shouldCompact(messages) THEN toReturn ELSE toReturn + 1
    /\ appended' = appended + 1
    /\ syncing' = syncing + 1
    /\ cleared' = FALSE
    /\ UNCHANGED <<compactedMemories, msgChars, inFlight, syncLogged, resets>>

\* saveMessage resumes with shouldCompact false and returns.
MSaveReturn ==
    /\ toReturn > 0
    /\ toReturn' = toReturn - 1
    /\ UNCHANGED <<messageCache, compactedMemories, appended, msgChars, toStart,
                   inFlight, syncing, syncLogged, cleared, resets>>

\* A client.saveMessage promise settles: fulfilled, or rejected and handled
\* by the catch callback of saveMessage.
MSyncSettle ==
    /\ syncing > 0
    /\ syncing' = syncing - 1
    /\ \E rejected \in BOOLEAN :
          /\ messageCache' = IF rejected THEN SyncFailed(messageCache) ELSE messageCache
          /\ syncLogged' = (syncLogged \/ rejected)
    /\ UNCHANGED <<compactedMemories, appended, msgChars, toStart, inFlight, toReturn,
                   cleared, resets>>

\* saveMessage resumes and calls compactMemory, which runs up to its await
\* of generateSummary: it returns at once on a cache shorter than the
\* threshold, and otherwise splits the cache into toCompact and toKeep.
MCompactStart ==
    /\ toStart > 0
    /\ toStart' = toStart - 1
    /\ LET messages == messageCache
       IN  IF Len(messages) < COMPACT_THRESHOLD \/ Len(ToCompact(messages)) = 0
           THEN UNCHANGED inFlight
           ELSE inFlight' = Append(inFlight, [messages |-> messages,
                                             toCompact |-> ToCompact(messages),
                                             toKeep |-> ToKeep(messages)])
    /\ UNCHANGED <<messageCache, compactedMemories, appended, msgChars, toReturn, syncing,
                   syncLogged, cleared, resets>>

\* generateSummary returns to the k-th compactMemory call in flight, with
\* the model's summary or, when the request failed, with the text it
\* returns instead; compactMemory records the compaction and replaces the
\* cache.
MCompactFinish(k) ==
    /\ k \in 1..Len(inFlight)
    /\ \E failed \in BOOLEAN :
       \E chars \in (IF failed THEN {FailedSummaryChars} ELSE SummaryChars) :
          LET c == inFlight[k]
              summaryMessage == [id |-> 0, chars |-> chars, summary |-> TRUE,
                                 failed |-> failed]
          IN  /\ compactedMemories' =
                    Append(compactedMemories,
                           [failed |-> failed, fromId |-> 0, toId |-> Len(c.toCompact),
                            messageCount |-> Len(c.toCompact)])
              /\ messageCache' = CompactedCache(summaryMessage, c.toKeep)
    /\ inFlight' = [i \in 1..(Len(inFlight) - 1) |-> IF i < k THEN inFlight[i] ELSE inFlight[i + 1]]
    /\ UNCHANGED <<appended, msgChars, toStart, toReturn, syncing, syncLogged, cleared,
                   resets>>

\* The most clearMessages and setMessages calls on the session.
MaxResets == 1

\* The messages setMessages is given: none, or those of a session saved
\* before, which precede every message saveMessage appends.
LoadedSessions ==
    { <<>>,
      <<[id |-> -2, chars |-> 4, summary |-> FALSE, failed |-> FALSE],
        [id |-> -1, chars |-> 4, summary |-> FALSE, failed |-> FALSE]>> }

\* MemoryManager.clearMessages: it deletes the session's entries from
\* messageCache and from compactedMemories.
MClear ==
    /\ resets < MaxResets
    /\ messageCache' = <<>>
    /\ compactedMemories' = <<>>
    /\ cleared' = TRUE
    /\ resets' = resets + 1
    /\ UNCHANGED <<appended, msgChars, toStart, inFlight, toReturn, syncing, syncLogged>>

\* MemoryManager.setMessages: it sets the session's entry of messageCache.
MSetMessages ==
    /\ resets < MaxResets
    /\ \E messages \in LoadedSessions : messageCache' = messages
    /\ cleared' = FALSE
    /\ resets' = resets + 1
    /\ UNCHANGED <<compactedMemories, appended, msgChars, toStart, inFlight, toReturn,
                   syncing, syncLogged>>

\* C9: in every state of the session's cache the messages that are not
\* summaries are in the order in which they were appended, and a summary
\* message is at index 0 of the cache, before every retained message.
C9_OrderPreserved ==
    /\ \A i, j \in 1..Len(messageCache) :
          (i < j /\ ~messageCache[i].summary /\ ~messageCache[j].summary)
              => messageCache[i].id < messageCache[j].id
    /\ \A i \in 1..Len(messageCache) : messageCache[i].summary => i = 1

\* Two compactions have replaced the cache, the later one while messages
\* had been appended after its snapshot, and messages follow the summary.
C9_Witness ==
    /\ Len(compactedMemories) >= 2
    /\ Len(messageCache) > KEEP_RECENT + 1
    /\ messageCache[1].summary

\* C10: at most one compaction of the session is in flight (between its
\* snapshot of the cache and its replacement of the cache) at any time.
C10_SingleFlight == Len(inFlight) <= 1

\* C11: no compaction whose summarization failed has changed the session:
\* no CompactedMemory record and no summary message of the cache stems from
\* a summarization that failed.
C11_FailureLeavesLogUnchanged ==
    /\ \A i \in 1..Len(compactedMemories) : ~compactedMemories[i].failed
    /\ \A i \in 1..Len(messageCache) : ~messageCache[i].failed

\* The trigger as the claim words it, and with the threshold as the code
\* tests it.
TriggerExceeding(messages) ==
    \/ Len(messages) > MAX_MESSAGES
    \/ Len(messages) > COMPACT_THRESHOLD /\ estimateTokens(messages) > MAX_TOKENS_ESTIMATE
TriggerReaching(messages) ==
    \/ Len(messages) > MAX_MESSAGES
    \/ Len(messages) >= COMPACT_THRESHOLD /\ estimateTokens(messages) > MAX_TOKENS_ESTIMATE

\* C12 as claimed: an append triggers compaction if and only if, counting
\* the appended message, the cache has more than 20 messages, or more than
\* 15 messages and more than 8000 estimated tokens.
C12_TriggerExceedsThreshold ==
    [][appended' = appended + 1 =>
          ((toStart' = toStart + 1) <=> TriggerExceeding(messageCache'))]_vars

\* C12 as amended: an append triggers compaction if and only if, counting
\* the appended message, the cache has more than 20 messages, or at least
\* 15 messages and more than 8000 estimated tokens.
C12_TriggerReachesThreshold ==
    [][appended' = appended + 1 =>
          ((toStart' = toStart + 1) <=> TriggerReaching(messageCache'))]_vars

\* The 15th append has triggered the first compaction of the session, which
\* has not started yet.
C12_Witness ==
    /\ appended = COMPACT_THRESHOLD
    /\ Len(messageCache) = COMPACT_THRESHOLD
    /\ toStart = 1
    /\ compactedMemories = <<>>

\* The ids of the messages of a cache, a summary message counting as 0.
IdsOf(cache) == [i \in 1..Len(cache) |-> IF cache[i].summary THEN 0 ELSE cache[i].id]

\* No compaction of the session was triggered.
NothingTriggered == toStart = 0 /\ inFlight = <<>> /\ compactedMemories = <<>>

\* In a session of messages of the given length the 16th append, and none
\* before it, triggers a compaction, after which the cache is the summary
\* and the messages 7 to 16, and the one record counts 6 messages.
SixteenthAppendCompacts(chars) ==
    msgChars = chars =>
        /\ appended < 16 => NothingTriggered
        /\ appended = 16 => toStart + Len(inFlight) + Len(compactedMemories) = 1
        /\ (appended = 16 /\ Len(compactedMemories) = 1) =>
              /\ IdsOf(messageCache) = <<0, 7, 8, 9, 10, 11, 12, 13, 14, 15, 16>>
              /\ compactedMemories[1].messageCount = 6

\* C13 as claimed: 16 short messages appended one per call: the 16th append
\* triggers compaction, after which the cache is [summary, msg7..msg16] and
\* there is exactly one CompactedMemory record, with messageCount = 6.
C13_SixteenShortMessages == SixteenthAppendCompacts(4)

\* C13 as amended: 16 messages of 1300 characters each (520 estimated tokens
\* each) appended one per call: the 16th append triggers compaction, after
\* which the cache is [summary, msg7..msg16] and there is exactly one
\* CompactedMemory record, with messageCount = 6; of short messages, the
\* first 20 appends trigger no compaction.
C13_SixteenLongMessages ==
    /\ SixteenthAppendCompacts(1300)
    /\ (msgChars = 4 /\ appended <= MAX_MESSAGES) => NothingTriggered

\* The compaction the 16th message of 1300 characters triggered has ended.
C13_Witness ==
    /\ msgChars = 1300
    /\ appended = 16
    /\ Len(compactedMemories) = 1

\* C14: a step that completes a compaction leaves one summary message
\* followed by the 10 most recent messages of the log that compaction
\* started from, in their order: 1 + min(10, recent count) messages.
C14_CacheAfterCompaction ==
    [][Len(inFlight') < Len(inFlight) =>
          \E k \in 1..Len(inFlight) :
              LET messages == inFlight[k].messages
                  n == Min(KEEP_RECENT, Len(messages))
              IN  /\ Len(messageCache') = 1 + n
                  /\ messageCache'[1].summary
                  /\ \A i \in 1..n :
                        /\ messageCache'[1 + i] = messages[Len(messages) - n + i]
                        /\ ~messageCache'[1 + i].summary]_vars

\* The one compaction of the session has completed and nothing was
\* appended since.
C14_Witness ==
    /\ Len(compactedMemories) = 1
    /\ inFlight = <<>>
    /\ toStart = 0
    /\ Len(messageCache) = 1 + KEEP_RECENT
    /\ messageCache[1].summary
    /\ messageCache[Len(messageCache)].id = appended

\* C15: the step of saveMessage that ends at its first suspension has put
\* the new message at the end of the cache; the settling of a
\* client.saveMessage promise, rejected or not, changes neither the cache
\* nor the suspended saveMessage calls; and a suspended saveMessage call can
\* resume whatever the state of the client.saveMessage promises.
C15_AppendBeforeSuspension ==
    /\ [][appended' = appended + 1 =>
             /\ messageCache'[Len(messageCache')].id = appended'
             /\ ~messageCache'[Len(messageCache')].summary]_vars
    /\ [][syncing' < syncing =>
             UNCHANGED <<messageCache, toReturn, toStart>>]_vars
    /\ [](toReturn > 0 => ENABLED MSaveReturn)
    /\ [](toStart > 0 => ENABLED MCompactStart)

\* The propagation of a message has failed, the saveMessage calls have
\* returned, and every message appended is in the cache.
C15_Witness ==
    /\ syncLogged
    /\ appended > 0
    /\ toReturn = 0
    /\ toStart = 0
    /\ IdsOf(messageCache) = [i \in 1..appended |-> i]

\* The appended messages of a list of messages: those that are not the
\* summary message of an earlier compaction.
Originals(messages) == SelectSeq(messages, LAMBDA m : ~m.summary)

\* C32: each compaction appends exactly one CompactedMemory record, whose
\* messageCount is the number of appended messages that compaction replaced,
\* the summary message of an earlier compaction not counted.
C32_CountsOriginals ==
    [][Len(inFlight') < Len(inFlight) =>
          \E k \in 1..Len(inFlight) :
              /\ Len(compactedMemories') = Len(compactedMemories) + 1
              /\ SubSeq(compactedMemories', 1, Len(compactedMemories)) = compactedMemories
              /\ compactedMemories'[Len(compactedMemories')].messageCount =
                     Len(Originals(inFlight[k].toCompact))
              /\ messageCache' = CompactedCache(messageCache'[1], inFlight[k].toKeep)]_vars

\* The messages of the cache that were appended after the given snapshot of
\* it was taken.
AppendedSince(cache, snapshot) ==
    SelectSeq(cache, LAMBDA m : ~m.summary /\ m.id > snapshot[Len(snapshot)].id)

\* C36: when a compaction replaces the cache, every message appended while
\* it awaited its summary is in the new cache, in order, after the messages
\* the compaction retained.
C36_NoAppendLost ==
    [][Len(inFlight') < Len(inFlight) =>
          \E k \in 1..Len(inFlight) :
              LET c == inFlight[k]
                  late == AppendedSince(messageCache, c.messages)
              IN  /\ messageCache'[1].summary
                  /\ SubSeq(messageCache', 2, Len(messageCache')) = c.toKeep \o late]_vars

\* C37: after clearMessages the session's cached messages and its
\* CompactedMemory records stay empty until the next saveMessage or
\* setMessages, a compaction in flight at the call notwithstanding; and
\* neither clearMessages nor setMessages makes a backend call.
C37_ClearedStaysEmpty ==
    /\ [](cleared => (messageCache = <<>> /\ compactedMemories = <<>>))
    /\ [][resets' # resets => UNCHANGED <<syncing, syncLogged>>]_vars

\* ------------------------------------------------------------------------
\* executeTool under the configurations of an agent
\* ------------------------------------------------------------------------

\* The names of the tool calls: two built-in names, of a search and of a
\* web action WebUseTool performs itself, a web action it hands on, and two
\* names that are not built in.
ToolNames == {knowledge_search, <<"c", "l", "i", "c", "k">>, <<"d", "r", "a", "g">>,
              <<"f">>, <<"g">>}

\* The names a configuration may list: a built-in name and another one.
ConfiguredNames == {knowledge_search, <<"f">>}

\* The configurations: the tools in CUSTOMER mode are among the registered
\* tools, and so are the disabled ones, those whose execution settings have
\* isEnabled false.
Configs ==
    { [manual |-> m, registered |-> r, customer |-> c, disabled |-> d, widget |-> w] :
        m \in SUBSET ConfiguredNames, r \in SUBSET ConfiguredNames,
        c \in SUBSET ConfiguredNames, d \in SUBSET ConfiguredNames, w \in BOOLEAN }

NotExecuted == [tier |-> "", result |-> "", error |-> <<>>]

TInit ==
    /\ tConfig \in {cfg \in Configs : cfg.customer \cup cfg.disabled \subseteq cfg.registered}
    /\ tName = <<>>
    /\ tOutcome = ""
    /\ tResult = NotExecuted

TIdle ==
    /\ tConfig = [manual |-> {}, registered |-> {}, customer |-> {}, disabled |-> {},
                  widget |-> FALSE]
    /\ tName = <<>>
    /\ tOutcome = ""
    /\ tResult = NotExecuted

\* executeTool runs for a tool call.
TExecute ==
    /\ \E name \in ToolNames, outcome \in Outcomes :
          /\ tName' = name
          /\ tOutcome' = outcome
          /\ tResult' = executeTool(tConfig, name, outcome)
    /\ UNCHANGED tConfig

\* C20: a call whose name has a manual executor goes to that executor and
\* to nothing else; otherwise a call whose name the tenant configuration has
\* in CUSTOMER mode with an endpoint goes to the customer endpoint; and only
\* otherwise a built-in implementation (a search, a web action, the widget
\* action of a registered tool) or none is used, also for a built-in name.
C20_TierPriority ==
    tName # <<>> =>
        /\ tName \in tConfig.manual => tResult.tier = "manual"
        /\ (tName \notin tConfig.manual /\ tName \in tConfig.customer)
              => tResult.tier = "customer"
        /\ (tName \notin tConfig.manual /\ tName \notin tConfig.customer)
              => tResult.tier \in {"builtin", "web", "widget", "none"}

\* A call of a built-in name for which the configuration has both a manual
\* executor and a customer endpoint was executed.
C20_Witness ==
    /\ tName = knowledge_search
    /\ tName \in tConfig.manual
    /\ tName \in tConfig.customer
    /\ tResult.tier = "manual"

\* A call was executed whose name has no manual executor, no customer
\* endpoint and no built-in implementation.
InNoTier ==
    /\ tName # <<>>
    /\ tName \notin tConfig.manual \cup tConfig.customer
    /\ tName \notin SearchTools \cup WebActions

\* The result says that the tool is unknown.
ReportedUnknown ==
    /\ tResult.tier = "none"
    /\ tResult.result = "failed"
    /\ SubSeq(tResult.error, 1, 2) = <<"Unknown tool: ", tName>>

\* The call went to the widget-action collaborator.
WentToWidget == tResult.tier = "widget" /\ tResult.error = <<>>

\* C28 as claimed: a call whose name is in no tier is reported as unknown,
\* unless the name is a tenant-registered tool, in which case the call goes
\* to the widget-action collaborator.
C28_RegisteredNeverUnknown ==
    InNoTier =>
        IF tName \in tConfig.registered THEN WentToWidget ELSE ReportedUnknown

\* C28 as amended: a call whose name is in no tier is reported as unknown,
\* unless the name is a tenant-registered tool and a widget-action
\* collaborator is configured, in which case the call goes to it.
C28_UnknownUnlessDelegated ==
    InNoTier =>
        IF tName \in tConfig.registered /\ tConfig.widget
        THEN WentToWidget ELSE ReportedUnknown

\* A call of a registered tool that is in no tier was executed by an agent
\* without a widget-action collaborator, and was reported as unknown.
C28_Witness ==
    /\ InNoTier
    /\ tName \in tConfig.registered
    /\ ~tConfig.widget
    /\ ReportedUnknown

\* C34: a call of a tool whose execution settings have isEnabled false is
\* never executed through the customer endpoint, whatever its executionMode
\* and customerEndpoint.
C34_DisabledNeverAtEndpoint ==
    tName \in tConfig.disabled => tResult.tier # "customer"

\* ------------------------------------------------------------------------
\* execute invocations on one agent instance
\* ------------------------------------------------------------------------

\* The most invocations of execute on the instance, and the turn limit of
\* each.
MaxInvocations == 2
ReentryTurns == 2

Invocations == 1..MaxInvocations

RInit ==
    /\ rPc = [k \in Invocations |-> "idle"]
    /\ rTurn = [k \in Invocations |-> 0]
    /\ rEnd = [k \in Invocations |-> ""]
    /\ rController = 0
    /\ rAborted = {}
    /\ rInitialized = FALSE
    /\ rAbortCalls = {}

RIdle ==
    /\ rPc = <<>>
    /\ rTurn = <<>>
    /\ rEnd = <<>>
    /\ rController = 0
    /\ rAborted = {}
    /\ rInitialized = FALSE
    /\ rAbortCalls = {}

\* Invocation k is in the try block of execute.
Running(k) == rPc[k] \in {"loopTop", "turn"}

\* Invocation k was invoked and has neither returned nor rejected.
InFlight(k) == rPc[k] \in {"init", "ensureSession", "loopTop", "turn"}

\* SupervisorAgent.isExecuting().
isExecuting == rController # 0

\* execute is called: on an agent that is not initialized it awaits init(),
\* on an initialized one it goes on to await ensureSession.
RInvoke(k) ==
    /\ rPc[k] = "idle"
    /\ \A j \in 1..(k - 1) : rPc[j] # "idle"
    /\ rPc' = [rPc EXCEPT ![k] = IF rInitialized THEN "ensureSession" ELSE "init"]
    /\ UNCHANGED <<rTurn, rEnd, rController, rAborted, rInitialized, rAbortCalls>>

\* init() resumes with the tenant configuration and sets this.initialized;
\* execute goes on to await ensureSession.
RInitDone(k) ==
    /\ rPc[k] = "init"
    /\ rInitialized' = TRUE
    /\ rPc' = [rPc EXCEPT ![k] = "ensureSession"]
    /\ UNCHANGED <<rTurn, rEnd, rController, rAborted, rAbortCalls>>

\* client.getConfig() rejects: init() rejects, and so does execute, whose
\* await of init() stands before its try block. No event is emitted.
RInitFails(k) ==
    /\ rPc[k] = "init"
    /\ rPc' = [rPc EXCEPT ![k] = "rejected"]
    /\ UNCHANGED <<rTurn, rEnd, rController, rAborted, rInitialized, rAbortCalls>>

\* execute resumes: this.abortController = new AbortController().
RBegin(k) ==
    /\ rPc[k] = "ensureSession"
    /\ rController' = k
    /\ rPc' = [rPc EXCEPT ![k] = "loopTop"]
    /\ UNCHANGED <<rTurn, rEnd, rAborted, rInitialized, rAbortCalls>>

\* The end of an invocation: its terminal event, and the finally block,
\* which sets this.abortController to null.
REnds(k, event) ==
    /\ rEnd' = [rEnd EXCEPT ![k] = event]
    /\ rPc' = [rPc EXCEPT ![k] = "returned"]
    /\ rController' = 0
    /\ UNCHANGED <<rTurn, rAborted, rInitialized, rAbortCalls>>

\* The top of the loop: the loop condition, then the cancellation check,
\* which reads this.abortController.signal and throws a TypeError, caught
\* by execute, when the field is null.
RLoopTop(k) ==
    /\ rPc[k] = "loopTop"
    /\ IF rTurn[k] >= ReentryTurns THEN REnds(k, "Max turns reached")
       ELSE IF rController = 0 THEN REnds(k, "TypeError")
       ELSE IF rController \in rAborted THEN REnds(k, "Execution aborted by user")
       ELSE /\ rTurn' = [rTurn EXCEPT ![k] = rTurn[k] + 1]
            /\ rPc' = [rPc EXCEPT ![k] = "turn"]
            /\ UNCHANGED <<rEnd, rController, rAborted, rInitialized, rAbortCalls>>

\* A turn of invocation k ends: with tool calls, at continue; without, at
\* done and the break.
RTurnEnd(k) ==
    /\ rPc[k] = "turn"
    /\ \/ /\ rPc' = [rPc EXCEPT ![k] = "loopTop"]
          /\ UNCHANGED <<rTurn, rEnd, rController, rAborted, rInitialized, rAbortCalls>>
       \/ REnds(k, "done")

\* SupervisorAgent.abort(), called while an invocation is in flight: it
\* aborts the controller of the field, if any, and does nothing otherwise.
RAbort ==
    /\ \E k \in Invocations : InFlight(k)
    /\ rAborted' = IF rController # 0 THEN rAborted \cup {rController} ELSE rAborted
    /\ rAbortCalls' = rAbortCalls \cup {k \in Invocations : InFlight(k)}
    /\ UNCHANGED <<rPc, rTurn, rEnd, rController, rInitialized>>

\* C19: while an invocation is in its try block, the field holds a token (it
\* is not null), and the token of an invocation that holds the field stays
\* in the field as long as that invocation runs, so that abort() cancels it.
C19_TokenKept ==
    /\ [](\A k \in Invocations : Running(k) => rController # 0)
    /\ [][\A k \in Invocations :
             (Running(k) /\ rController = k /\ Running(k)') => rController' = k]_vars

\* C35: isExecuting() is true exactly while an execute invocation is in
\* flight, from its call to its return, and false at every other time.
C35_ExecutingWhileInFlight ==
    isExecuting <=> (\E k \in Invocations : InFlight(k))

\* C38: an invocation that was in flight when abort() was called, were it
\* still awaiting init or ensureSession, issues no model request afterwards
\* and ends with the aborted error event.
C38_AbortStopsInvocation ==
    /\ [][\A k \in Invocations :
             k \in rAbortCalls => ~(rPc[k] = "loopTop" /\ rPc'[k] = "turn")]_vars
    /\ [](\A k \in Invocations :
             (k \in rAbortCalls /\ rPc[k] = "returned") =>
                 rEnd[k] = "Execution aborted by user")

\* C39: execute never rejects; after a failed initialisation it has returned
\* with an error event, the agent not initialized and not executing.
C39_ExecuteNeverRejects ==
    \A k \in Invocations : rPc[k] # "rejected"

\* ------------------------------------------------------------------------
\* deduplicateToolCalls on the tool calls of a turn
\* ------------------------------------------------------------------------

\* The most tool calls of a turn.
MaxCalls == 3

\* Parameters as JSON.parse gives them for the texts {"a":1,"b":2},
\* {"b":2,"a":1} and {"a":1}: the members in the order they were written.
MemberA == [k |-> <<"a">>, v |-> [type |-> "num", text |-> <<"1">>]]
MemberB == [k |-> <<"b">>, v |-> [type |-> "num", text |-> <<"2">>]]
DedupParameters == {<<MemberA, MemberB>>, <<MemberB, MemberA>>, <<MemberA>>}

DedupCalls == {[name |-> n, parameters |-> p] : n \in {<<"f">>, <<"g">>}, p \in DedupParameters}

DInit ==
    /\ dCalls \in StringsOf({<<tc>> : tc \in DedupCalls}, MaxCalls)
    /\ dUnique = <<>>
    /\ dDone = FALSE

DIdle ==
    /\ dCalls = <<>>
    /\ dUnique = <<>>
    /\ dDone = FALSE

\* const uniqueToolCalls = this.deduplicateToolCalls(toolCalls)
DDeduplicate ==
    /\ ~dDone
    /\ dUnique' = deduplicateToolCalls(dCalls)
    /\ dDone' = TRUE
    /\ UNCHANGED dCalls

\* Two objects are structurally equal: they have the same keys with the
\* same values (an object has each key once).
SameObject(a, b) == {a[i] : i \in 1..Len(a)} = {b[i] : i \in 1..Len(b)}

\* Two tool calls with equal names and structurally equal parameters.
SameCall(a, b) == a.name = b.name /\ SameObject(a.parameters, b.parameters)

\* C33: deduplication leaves no two tool calls with equal names and
\* structurally equal parameters, in whatever order the keys of the
\* parameters were written, and leaves one call for every call of the turn.
C33_KeyOrderIndependent ==
    dDone =>
        /\ \A i, j \in 1..Len(dUnique) : SameCall(dUnique[i], dUnique[j]) => i = j
        /\ \A i \in 1..Len(dCalls) : \E j \in 1..Len(dUnique) : SameCall(dCalls[i], dUnique[j])

\* ------------------------------------------------------------------------
\* executeCustomerTool: the request to a customer endpoint and its retries
\* ------------------------------------------------------------------------

\* The largest maxRetries of a tool's execution settings.
MaxRetriesBound == 3

\* What an attempt can come to: the endpoint answers with a result whose
\* success is true or false, or the attempt fails (a status that is not ok,
\* a network error, the timeout's abort of the request).
EndpointResults == {"success", "refusal"}
EndpointFailures == {"http error", "network error", "timeout"}

NoResult == [success |-> FALSE, from |-> "", attempts |-> 0]

CInit ==
    /\ cMaxRetries \in 0..MaxRetriesBound
    /\ cPc = "attempt"
    /\ cAttempt = 0
    /\ cRequests = 0
    /\ cWaits = <<>>
    /\ cErrors = <<>>
    /\ cResult = NoResult

CIdle ==
    /\ cMaxRetries = 0
    /\ cPc = "idle"
    /\ cAttempt = 0
    /\ cRequests = 0
    /\ cWaits = <<>>
    /\ cErrors = <<>>
    /\ cResult = NoResult

\* A wait after every failed attempt, the last one included.
RetryAfter_Always(attempt, maxRetries) == attempt <= maxRetries

\* The test in the catch block: attempt < maxRetries.
RetryAfter(attempt, maxRetries) == attempt < maxRetries

\* The wait before the retry that follows the given attempt, in
\* milliseconds: Math.pow(2, attempt) * 1000.
Backoff(attempt) == (2 ^ attempt) * 1000

\* attempt++ and the test of the for loop: the next attempt, or the return
\* of the result that reports the last error.
CLoop(attempt) ==
    /\ cAttempt' = attempt
    /\ IF attempt <= cMaxRetries
       THEN /\ cPc' = "attempt"
            /\ UNCHANGED cResult
       ELSE /\ cPc' = "returned"
            /\ cResult' = [success |-> FALSE, from |-> "exhausted",
                           attempts |-> cMaxRetries + 1]

\* One iteration of the for loop up to its wait: the request is made; an
\* answer of the endpoint is returned as it is; a failure is caught and is
\* followed by a wait if attempts remain.
CAttempt ==
    /\ cPc = "attempt"
    /\ cRequests' = cRequests + 1
    /\ \/ \E answer \in EndpointResults :
             /\ cResult' = [success |-> answer = "success", from |-> "endpoint",
                            attempts |-> cRequests + 1]
             /\ cPc' = "returned"
             /\ UNCHANGED <<cAttempt, cErrors>>
       \/ \E failure \in EndpointFailures :
             /\ cErrors' = Append(cErrors, failure)
             /\ IF RetryAfter(cAttempt, cMaxRetries)
                THEN /\ cPc' = "wait"
                     /\ UNCHANGED <<cAttempt, cResult>>
                ELSE CLoop(cAttempt + 1)
    /\ UNCHANGED <<cMaxRetries, cWaits>>

\* The wait before a retry ends.
CWait ==
    /\ cPc = "wait"
    /\ cWaits' = Append(cWaits, Backoff(cAttempt))
    /\ CLoop(cAttempt + 1)
    /\ UNCHANGED <<cMaxRetries, cRequests, cErrors>>

\* C21: at most maxRetries + 1 requests are made; the wait before retry
\* number k (k = 0, 1, ...) is 2^k seconds, each longer than the one before;
\* an answer of the endpoint is returned at once, no wait or request
\* following it; and when every attempt has failed, exactly maxRetries + 1
\* requests were made, with a wait between them and none after the last,
\* and the result has success = false.
C21_RetryWithBackoff ==
    /\ cRequests <= cMaxRetries + 1
    /\ cWaits = [k \in 1..Len(cWaits) |-> (2 ^ (k - 1)) * 1000]
    /\ \A k \in 2..Len(cWaits) : cWaits[k] > cWaits[k - 1]
    /\ cPc = "returned" =>
          /\ Len(cWaits) = cRequests - 1
          /\ cResult.from = "endpoint" => Len(cErrors) = cRequests - 1
          /\ Len(cErrors) = cRequests =>
                /\ cRequests = cMaxRetries + 1
                /\ ~cResult.success
                /\ cResult.from = "exhausted"

\* A call with two retries or more has returned after every attempt failed.
C21_Witness ==
    /\ cPc = "returned"
    /\ cMaxRetries >= 2
    /\ Len(cErrors) = cMaxRetries + 1
    /\ Len(cWaits) = cMaxRetries

\* The variables of the part a specification leaves out keep these values.
XIdle ==
    /\ xInput = <<>>
    /\ xPos = 0
    /\ xParser = InitParser
    /\ xText = <<>>
    /\ xCalls = <<>>
    /\ xFlushed = TRUE
    /\ xSplit = FALSE
    /\ xFlushes = 0
    /\ xRemaining = <<>>

AIdle ==
    /\ maxTurns = 1
    /\ pc = "idle"
    /\ abortController = FALSE
    /\ aborted = FALSE
    /\ turnCount = 0
    /\ response = <<>>
    /\ delivered = 0
    /\ chunks = <<>>
    /\ toolParser = InitParser
    /\ hasToolCalls = FALSE
    /\ toolCalls = <<>>
    /\ uniqueToolCalls = <<>>
    /\ results = <<>>
    /\ settled = <<>>
    /\ saved = 0
    /\ turnText = <<>>
    /\ log = <<>>
    /\ memory = <<>>

\* The extractor alone.
InitParserSpec == XInit /\ AIdle /\ MIdle /\ TIdle /\ RIdle /\ CIdle /\ DIdle
NextParserSpec ==
    \/ XAddChunk /\ UNCHANGED <<avars, mvars, tvars, rvars, cvars, dvars>>
    \/ XFlush /\ UNCHANGED <<avars, mvars, tvars, rvars, cvars, dvars>>
SpecParser == InitParserSpec /\ [][NextParserSpec]_vars

\* The extractor alone, on tool blocks with parameters lines.
InitParamsSpec == XInitParams /\ AIdle /\ MIdle /\ TIdle /\ RIdle /\ CIdle /\ DIdle
NextParamsSpec ==
    \/ XAddChunk /\ UNCHANGED <<avars, mvars, tvars, rvars, cvars, dvars>>
    \/ XFlush /\ UNCHANGED <<avars, mvars, tvars, rvars, cvars, dvars>>
SpecParams == InitParamsSpec /\ [][NextParamsSpec]_vars

\* One execute invocation.
InitAgentSpec == AInit /\ XIdle /\ MIdle /\ TIdle /\ RIdle /\ CIdle /\ DIdle
NextAgentSpec ==
    \/ Begin /\ UNCHANGED <<xvars, mvars, tvars, rvars, cvars, dvars>>
    \/ LoopTop /\ UNCHANGED <<xvars, mvars, tvars, rvars, cvars, dvars>>
    \/ StartStream /\ UNCHANGED <<xvars, mvars, tvars, rvars, cvars, dvars>>
    \/ RequestRejected /\ UNCHANGED <<xvars, mvars, tvars, rvars, cvars, dvars>>
    \/ StreamChunk /\ UNCHANGED <<xvars, mvars, tvars, rvars, cvars, dvars>>
    \/ StreamEnd /\ UNCHANGED <<xvars, mvars, tvars, rvars, cvars, dvars>>
    \/ HandleResponse /\ UNCHANGED <<xvars, mvars, tvars, rvars, cvars, dvars>>
    \/ (\E i \in 1..Len(results) : ToolComplete(i)) /\ UNCHANGED <<xvars, mvars, tvars, rvars, cvars, dvars>>
    \/ SaveResult /\ UNCHANGED <<xvars, mvars, tvars, rvars, cvars, dvars>>
    \/ PromptFails /\ UNCHANGED <<xvars, mvars, tvars, rvars, cvars, dvars>>
    \/ StreamFails /\ UNCHANGED <<xvars, mvars, tvars, rvars, cvars, dvars>>
    \/ TraceFails /\ UNCHANGED <<xvars, mvars, tvars, rvars, cvars, dvars>>
    \/ ToolRejected /\ UNCHANGED <<xvars, mvars, tvars, rvars, cvars, dvars>>
    \/ Abort /\ UNCHANGED <<xvars, mvars, tvars, rvars, cvars, dvars>>
SpecAgent == InitAgentSpec /\ [][NextAgentSpec]_vars

\* The message cache of one session under saveMessage calls and
\* compactions.
InitMemorySpec == MInit /\ XIdle /\ AIdle /\ TIdle /\ RIdle /\ CIdle /\ DIdle
NextMemorySpec ==
    \/ MSaveMessage /\ UNCHANGED <<xvars, avars, tvars, rvars, cvars, dvars>>
    \/ MSaveReturn /\ UNCHANGED <<xvars, avars, tvars, rvars, cvars, dvars>>
    \/ MSyncSettle /\ UNCHANGED <<xvars, avars, tvars, rvars, cvars, dvars>>
    \/ MCompactStart /\ UNCHANGED <<xvars, avars, tvars, rvars, cvars, dvars>>
    \/ (\E k \in 1..Len(inFlight) : MCompactFinish(k)) /\ UNCHANGED <<xvars, avars, tvars, rvars, cvars, dvars>>
SpecMemory == InitMemorySpec /\ [][NextMemorySpec]_vars

\* The message cache of one session under saveMessage calls, compactions,
\* clearMessages and setMessages.
InitClearSpec == MInit /\ XIdle /\ AIdle /\ TIdle /\ RIdle /\ CIdle /\ DIdle
NextClearSpec ==
    \/ MSaveMessage /\ UNCHANGED <<xvars, avars, tvars, rvars, cvars, dvars>>
    \/ MSaveReturn /\ UNCHANGED <<xvars, avars, tvars, rvars, cvars, dvars>>
    \/ MSyncSettle /\ UNCHANGED <<xvars, avars, tvars, rvars, cvars, dvars>>
    \/ MCompactStart /\ UNCHANGED <<xvars, avars, tvars, rvars, cvars, dvars>>
    \/ (\E k \in 1..Len(inFlight) : MCompactFinish(k)) /\ UNCHANGED <<xvars, avars, tvars, rvars, cvars, dvars>>
    \/ MClear /\ UNCHANGED <<xvars, avars, tvars, rvars, cvars, dvars>>
    \/ MSetMessages /\ UNCHANGED <<xvars, avars, tvars, rvars, cvars, dvars>>
SpecClear == InitClearSpec /\ [][NextClearSpec]_vars

\* executeTool alone.
InitToolSpec == TInit /\ XIdle /\ AIdle /\ MIdle /\ RIdle /\ CIdle /\ DIdle
NextToolSpec ==
    \/ TExecute /\ UNCHANGED <<xvars, avars, mvars, rvars, cvars, dvars>>
SpecTool == InitToolSpec /\ [][NextToolSpec]_vars

\* Two execute invocations on one instance.
InitReentrySpec == RInit /\ XIdle /\ AIdle /\ MIdle /\ TIdle /\ CIdle /\ DIdle
NextReentrySpec ==
    \/ (\E k \in Invocations : RInvoke(k)) /\ UNCHANGED <<xvars, avars, mvars, tvars, cvars, dvars>>
    \/ (\E k \in Invocations : RInitDone(k)) /\ UNCHANGED <<xvars, avars, mvars, tvars, cvars, dvars>>
    \/ (\E k \in Invocations : RInitFails(k)) /\ UNCHANGED <<xvars, avars, mvars, tvars, cvars, dvars>>
    \/ (\E k \in Invocations : RBegin(k)) /\ UNCHANGED <<xvars, avars, mvars, tvars, cvars, dvars>>
    \/ (\E k \in Invocations : RLoopTop(k)) /\ UNCHANGED <<xvars, avars, mvars, tvars, cvars, dvars>>
    \/ (\E k \in Invocations : RTurnEnd(k)) /\ UNCHANGED <<xvars, avars, mvars, tvars, cvars, dvars>>
    \/ RAbort /\ UNCHANGED <<xvars, avars, mvars, tvars, cvars, dvars>>
SpecReentry == InitReentrySpec /\ [][NextReentrySpec]_vars

\* One executeCustomerTool call.
InitCustomerSpec == CInit /\ XIdle /\ AIdle /\ MIdle /\ TIdle /\ RIdle /\ DIdle
NextCustomerSpec ==
    \/ CAttempt /\ UNCHANGED <<xvars, avars, mvars, tvars, rvars, dvars>>
    \/ CWait /\ UNCHANGED <<xvars, avars, mvars, tvars, rvars, dvars>>
SpecCustomer == InitCustomerSpec /\ [][NextCustomerSpec]_vars

\* One deduplicateToolCalls call.
InitDedupSpec == DInit /\ XIdle /\ AIdle /\ MIdle /\ TIdle /\ RIdle /\ CIdle
NextDedupSpec ==
    \/ DDeduplicate /\ UNCHANGED <<xvars, avars, mvars, tvars, rvars, cvars>>
SpecDedup == InitDedupSpec /\ [][NextDedupSpec]_vars

====
